---- MODULE Spec2Model ----
\* Model of the multi-agent test workflow: the orchestrator's phase pipeline
\* (agents/orchestrator.py) with its collaborators (planner, ranker, executor,
\* analyzer) and the progress observer passed to execute_full_workflow.
EXTENDS Integers, Sequences, FiniteSets, TLC

\* ---------------------------------------------------------------- bounds
\* Largest number of test cases the planner returns in the workflow runs.
MaxCandidates == 2
\* Largest configured num_execute in the workflow runs.
MaxExecute == 2
\* Largest batch size of the runs that start at the reporting step.
MaxTotal == 10
\* Records in a batch given to the analyzer on its own.
MaxBatch == 3
\* Test cases given to the executor on its own, and steps of one test case.
MaxTests == 2
MaxSteps == 2
\* Start-test requests the service receives, and seconds its clock shows.
MaxRequests == 2
MaxClock == 1

\* Messages of the exceptions raised by a collaborator or by the observer.
ErrMsgs == {"timeout", "refused"}
\* The three kinds of progress observer a caller can pass: no observer, one
\* that always returns (as the service's progress_callback), and an arbitrary
\* callable that returns or raises on each call.
Observers == {"none", "reliable", "faulty"}

\* ---------------------------------------------------------------- helpers
Min(a, b) == IF a <= b THEN a ELSE b
Max(a, b) == IF a >= b THEN a ELSE b

\* The empty dict {} (and the empty list []).
EmptyDict == <<>>
\* d[k] = v on a dict.
Put(d, k, v) == (k :> v) @@ d
\* d.get(k, default)
Get(d, k, default) == IF k \in DOMAIN d THEN d[k] ELSE default

RECURSIVE GCD(_, _)
GCD(a, b) == IF b = 0 THEN a ELSE GCD(b, a % b)

\* The quotient p / t of two naturals (t > 0) as a reduced fraction <<num, den>>:
\* two divisions give equal floats exactly when the fractions are equal.
Ratio(p, t) == LET g == GCD(p, t) IN <<p \div g, t \div g>>
\* The number 0 (the literal the code uses when it does not divide).
Zero == <<0, 1>>
\* x >= a/b and x > a/b, x < a/b for a fraction x.
RatioGe(x, a, b) == x[1] * b >= a * x[2]
RatioGt(x, a, b) == x[1] * b > a * x[2]
RatioLt(x, a, b) == x[1] * b < a * x[2]
\* x + y, x / n (n > 0) and x <= y for fractions x and y.
RatioAdd(x, y) == Ratio(x[1] * y[2] + y[1] * x[2], x[2] * y[2])
RatioDiv(x, n) == Ratio(x[1], x[2] * n)
RatioLe(x, y) == x[1] * y[2] <= y[1] * x[2]
\* The float of t whole seconds.
Secs(t) == <<t, 1>>

\* ---- the float arithmetic of the quotients, in integers below 2^31
RECURSIVE Pow2(_)
Pow2(k) == IF k = 0 THEN 1 ELSE 2 * Pow2(k - 1)
\* (a * 2^s) mod m
RECURSIVE MulPow2Mod(_, _, _)
MulPow2Mod(a, s, m) ==
    IF s = 0 THEN a % m
    ELSE IF s >= 8 THEN MulPow2Mod((256 * (a % m)) % m, s - 8, m)
    ELSE MulPow2Mod((2 * (a % m)) % m, s - 1, m)
RECURSIVE ExponentFrom(_, _, _)
\* The largest e >= from with n * 2^e <= p (p >= n * 2^from).
ExponentFrom(p, n, from) ==
    IF n * Pow2(from + 1) <= p THEN ExponentFrom(p, n, from + 1) ELSE from
RECURSIVE NegExponentFrom(_, _, _)
\* The smallest k >= from with p * 2^k >= n.
NegExponentFrom(p, n, from) ==
    IF p * Pow2(from) < n THEN NegExponentFrom(p, n, from + 1) ELSE from
\* The binary exponent e of p / n (p, n > 0): 2^e <= p / n < 2^(e + 1).
BinaryExponent(p, n) ==
    IF p >= n THEN ExponentFrom(p, n, 0) ELSE 0 - NegExponentFrom(p, n, 1)
\* The float p / n of two naturals p, n > 0 (IEEE 754 binary64, round to
\* nearest, ties to even): the float is M * 2^-s with a mantissa
\* 2^52 <= M < 2^53. Of the mantissa the low nine bits are kept (low), and the
\* rounding error as the integer err = M * n - p * 2^s, which is positive when
\* the float is above the quotient, negative when below, 0 when it is exact.
FloatDiv(p, n) ==
    LET s == 52 - BinaryExponent(p, n)
        R == MulPow2Mod(p, s, 512 * n)
        r == R % n
        q == (R - r) \div n
        up == 2 * r > n \/ (2 * r = n /\ q % 2 = 1)
    IN  [s |-> s,
         low |-> (q + (IF up THEN 1 ELSE 0)) % 512,
         err |-> IF up THEN n - r ELSE 0 - r]
\* The rounding of float(100 * x) for the float x = p / n, as FloatDiv gives
\* it: the sign of float(100 * x) - 100 * p / n (an integer of that sign).
FloatTimes100Err(p, n) ==
    LET x == FloatDiv(p, n)
        e == 52 - x.s
        \* 100 * M >= 2^59, that is 100 * x >= 2^(e + 7): the product has
        \* 60 bits and loses 7, otherwise 59 and loses 6
        a == IF 7 + e >= 0 THEN 100 * p ELSE 100 * p * Pow2(0 - (7 + e))
        b == IF 7 + e >= 0 THEN n * Pow2(7 + e) ELSE n
        lost == IF a > b \/ (a = b /\ x.err >= 0) THEN 7 ELSE 6
        L == (100 * x.low) % Pow2(lost)
        odd == (100 * x.low) % Pow2(lost + 1) >= Pow2(lost)
        up == L > Pow2(lost - 1) \/ (L = Pow2(lost - 1) /\ odd)
    IN  100 * x.err + n * (IF up THEN Pow2(lost) - L ELSE 0 - L)
\* abs(float(t) - avg) > 2 * avg for avg = total / n as a float (avg = 0 when
\* n = 0). The floats decide as the exact numbers do, except when
\* t = 3 * total / n and total / n is no float: then t - avg lies halfway
\* between two floats, and is rounded above 2 * avg exactly when avg is below
\* the quotient and its mantissa is odd.
\* t and total are fractions (the times are multiples of half a second, so
\* that their sum is exact).
ExceedsTwiceMean(t, total, n) ==
    LET tt == t[1] * total[2]
        tot == total[1] * t[2]
        d == tt * n - tot
        a == IF d >= 0 THEN d ELSE 0 - d
    IN  IF a # 2 * tot \/ tot = 0 \/ d < 0
        THEN a > 2 * tot
        ELSE LET avg == FloatDiv(total[1], total[2] * n)
             IN  avg.err < 0 /\ avg.low % 2 = 1

\* s[:n] of a list.
SliceTo(s, n) ==
    IF n >= 0 THEN SubSeq(s, 1, Min(n, Len(s)))
    ELSE SubSeq(s, 1, Max(Len(s) + n, 0))
\* s[n:] of a list.
SliceFrom(s, n) ==
    IF n >= 0 THEN SubSeq(s, Min(n, Len(s)) + 1, Len(s))
    ELSE SubSeq(s, Max(Len(s) + n, 0) + 1, Len(s))

RECURSIVE CountStatus(_, _)
\* sum(1 for result in test_results if result.get("status") == st)
CountStatus(rs, st) ==
    IF rs = <<>> THEN 0
    ELSE (IF Head(rs).status = st THEN 1 ELSE 0) + CountStatus(Tail(rs), st)

RECURSIVE SumTimes(_)
SumTimes(rs) ==
    IF rs = <<>> THEN Zero ELSE RatioAdd(Head(rs).execution_time, SumTimes(Tail(rs)))

\* ---------------------------------------------------------------- state
VARIABLES
    config,           \* the orchestrator's config: num_execute
    observer,         \* the progress_callback argument
    pc,               \* position of execute_full_workflow (source line)
    workflow_report,  \* the workflow_report dict
    exc,              \* message of the exception in flight ("" if none)
    result,           \* the value execute_full_workflow returned (<<>> before)
    raised,           \* the exceptions raised outside the phase methods, in order
    started,          \* the phases started so far, in order
    calls,            \* the collaborator invocations so far, in order
    progress,         \* the calls made to the observer so far, in order
    analyzer,         \* one call of analyze_results: position, batch, values computed
    executor,         \* one call of execute_test_cases: position, test cases, records
    service           \* main.py: test_status, current_test_run, clock, background tasks

vars == <<config, observer, pc, workflow_report, exc, result, raised, started, calls,
          progress, analyzer, executor, service>>

\* The state of the other components, which a workflow run leaves alone.
others == <<analyzer, executor, service>>
\* The variables of the workflow run.
workflow == <<config, observer, pc, workflow_report, exc, result, raised, started, calls,
              progress>>
\* A component that is not part of the runs of a specification.
Idle == [pc |-> "idle"]

\* ---------------------------------------------------------------- records
\* What one executed test can look like: status, execution time (t whole
\* seconds; the times of the records are fractions, as the mock results have
\* times of half seconds), types of the logged errors, number of screenshots,
\* number of artifacts.
Outcome(st, t, errs, shots) ==
    [status |-> st, execution_time |-> Secs(t), errors |-> errs,
     screenshots |-> shots, artifacts |-> 0]

\* The execution times of the records: a fast test and one slower than
\* max_execution_time (30 s).
ExecTimes == {5, 40}
\* The errors a page logs during a test: the pageerror handler (lines 141-145)
\* is the only writer of result["errors"].
ExecErrors == {<<>>, <<"page_error">>, <<"page_error", "page_error">>}
\* The records _execute_single_test returns: passed or failed with the final
\* screenshot taken (line 158), or error after an exception, which leaves the
\* list of screenshots empty (_capture_page_artifacts raises nothing); the time
\* and the page errors logged are independent of the status.
ExecOutcomes ==
    { Outcome(st, t, errs, IF st = "error" THEN 0 ELSE 1) :
        st \in {"passed", "failed", "error"}, t \in ExecTimes, errs \in ExecErrors }

\* The record of test case id with outcome o.
Record(id, o) == [test_id |-> id] @@ o

\* The record _generate_mock_results gives the test case at position k
\* (lines 308-342): failed with a mock error when (k - 1) % 4 = 0, else passed,
\* after 5.0 + 0.5 * (k - 1) seconds, with no screenshot and no artifact.
MockOutcome(k) ==
    [status |-> IF (k - 1) % 4 # 0 THEN "passed" ELSE "failed",
     execution_time |-> Ratio(10 + (k - 1), 2),
     errors |-> IF (k - 1) % 4 # 0 THEN <<>> ELSE <<"mock_error">>,
     screenshots |-> 0, artifacts |-> 0]

\* The batches execute_test_cases can return for test_cases, one record per
\* test case in the order given: with Playwright every record is one of
\* ExecOutcomes, without it (lines 49-51) the batch is the mock batch.
Batches(test_cases) ==
    { [i \in 1..Len(test_cases) |-> Record(test_cases[i], f[i])] :
        f \in [1..Len(test_cases) -> ExecOutcomes] }
    \cup { [i \in 1..Len(test_cases) |-> Record(test_cases[i], MockOutcome(i))] }

\* ---------------------------------------------------------------- analyzer
\* The execution times _calculate_basic_stats keeps: those that are truthy.
TruthyTimes(rs) == SelectSeq([i \in 1..Len(rs) |-> rs[i].execution_time], LAMBDA t : t # Zero)

RECURSIVE SeqSum(_)
SeqSum(s) == IF s = <<>> THEN Zero ELSE RatioAdd(Head(s), SeqSum(Tail(s)))
SeqMin(s) == CHOOSE x \in {s[i] : i \in DOMAIN s} : \A j \in DOMAIN s : RatioLe(x, s[j])
SeqMax(s) == CHOOSE x \in {s[i] : i \in DOMAIN s} : \A j \in DOMAIN s : RatioLe(s[j], x)

\* Mutant: the failed count also takes the records of status error.
calculate_basic_stats_ErrorsAsFailed(test_results) ==
    LET total_tests == Len(test_results)
        passed_tests == CountStatus(test_results, "passed")
        failed_tests == CountStatus(test_results, "failed") + CountStatus(test_results, "error")
        error_tests == CountStatus(test_results, "error")
    IN  IF total_tests = 0
        THEN [total_tests |-> 0, success_rate |-> Zero,
              error |-> "No test results to analyze"]
        ELSE [total_tests |-> total_tests,
              passed |-> passed_tests,
              failed |-> failed_tests,
              errors |-> error_tests,
              success_rate |-> Ratio(passed_tests, total_tests),
              failure_rate |-> Ratio(failed_tests, total_tests),
              error_rate |-> Ratio(error_tests, total_tests),
              execution_times |-> [min |-> Zero, max |-> Zero, average |-> Zero, total |-> Zero]]

calculate_basic_stats(test_results) ==
    LET total_tests == Len(test_results)
        passed_tests == CountStatus(test_results, "passed")
        failed_tests == CountStatus(test_results, "failed")
        error_tests == CountStatus(test_results, "error")
        execution_times == TruthyTimes(test_results)
        some == execution_times # <<>>
    IN  IF total_tests = 0
        THEN [total_tests |-> 0, success_rate |-> Zero,
              error |-> "No test results to analyze"]
        ELSE [total_tests |-> total_tests,
              passed |-> passed_tests,
              failed |-> failed_tests,
              errors |-> error_tests,
              success_rate |-> Ratio(passed_tests, total_tests),
              failure_rate |-> Ratio(failed_tests, total_tests),
              error_rate |-> Ratio(error_tests, total_tests),
              execution_times |->
                [min |-> IF some THEN SeqMin(execution_times) ELSE Zero,
                 max |-> IF some THEN SeqMax(execution_times) ELSE Zero,
                 average |-> IF some
                             THEN RatioDiv(SeqSum(execution_times), Len(execution_times))
                             ELSE Zero,
                 total |-> IF some THEN SeqSum(execution_times) ELSE Zero]]

\* _analyze_errors divides by len(test_results) without a guard (line 190):
\* it raises ZeroDivisionError exactly on the empty batch.
analyze_errors_raises(test_results) == Len(test_results) = 0

\* round(num/den) to the nearest integer for a float that stands for num/den:
\* the formats round the decimal expansion of the float, so that when num/den
\* lies halfway between two integers the rounding error of the float decides
\* (err > 0: the float is above, err < 0: below), and ties go to even only
\* when the float is exact (err = 0).
RoundFloat(num, den, err) ==
    LET q == num \div den
        r == num % den
    IN  IF 2 * r < den THEN q
        ELSE IF 2 * r > den THEN q + 1
        ELSE IF err > 0 THEN q + 1
        ELSE IF err < 0 THEN q
        ELSE IF q % 2 = 0 THEN q ELSE q + 1
\* Whether num/den lies halfway between two integers.
IsHalfway(num, den) == 2 * (num % den) = den
\* f"{x:.1%}": the permille shown. The format multiplies the float x by 100
\* and shows one decimal of the float product.
FormatPercent1(x) ==
    RoundFloat(1000 * x[1], x[2],
               IF IsHalfway(1000 * x[1], x[2]) THEN FloatTimes100Err(x[1], x[2]) ELSE 0)
\* f"{x:.1f}": the tenths shown of the float x.
FormatFixed1(x) ==
    RoundFloat(10 * x[1], x[2],
               IF IsHalfway(10 * x[1], x[2]) THEN FloatDiv(x[1], x[2]).err ELSE 0)

\* _generate_recommendations reads stats["execution_times"], a key the stats
\* of an empty batch do not have.
generate_recommendations_raises(stats) == "execution_times" \notin DOMAIN stats

\* Mutant: nothing is appended when no rule has fired.
generate_recommendations_NoDefault(test_results, stats) ==
    LET r1 == IF RatioLt(stats.success_rate, 8, 10)
              THEN << <<"Success rate (", FormatPercent1(stats.success_rate),
                        ") is below threshold. Review failing tests.">> >>
              ELSE <<>>
        avg_time == stats.execution_times.average
        r2 == IF RatioGt(avg_time, 30, 1)
              THEN << <<"Average execution time (", FormatFixed1(avg_time),
                        "s) exceeds threshold. Optimize slow tests.">> >>
              ELSE <<>>
        r3 == IF RatioGt(stats.error_rate, 2, 10)
              THEN << <<"Error rate (", FormatPercent1(stats.error_rate),
                        ") is too high. Investigate common failure patterns.">> >>
              ELSE <<>>
        r4 == IF stats.total_tests < 10
              THEN << <<"Consider expanding test coverage with more test cases.">> >>
              ELSE <<>>
    IN  r1 \o r2 \o r3 \o r4

\* Mutant: the coverage rule fires for 10 tests too.
generate_recommendations_CoverageAtTen(test_results, stats) ==
    LET r1 == IF RatioLt(stats.success_rate, 8, 10)
              THEN << <<"Success rate (", FormatPercent1(stats.success_rate),
                        ") is below threshold. Review failing tests.">> >>
              ELSE <<>>
        avg_time == stats.execution_times.average
        r2 == IF RatioGt(avg_time, 30, 1)
              THEN << <<"Average execution time (", FormatFixed1(avg_time),
                        "s) exceeds threshold. Optimize slow tests.">> >>
              ELSE <<>>
        r3 == IF RatioGt(stats.error_rate, 2, 10)
              THEN << <<"Error rate (", FormatPercent1(stats.error_rate),
                        ") is too high. Investigate common failure patterns.">> >>
              ELSE <<>>
        r4 == IF stats.total_tests <= 10
              THEN << <<"Consider expanding test coverage with more test cases.">> >>
              ELSE <<>>
        recommendations == r1 \o r2 \o r3 \o r4
    IN  IF Len(recommendations) = 0
        THEN << <<"All metrics within acceptable thresholds. Test suite performing well.">> >>
        ELSE recommendations

\* _generate_recommendations(test_results, stats), lines 320-345: the batch is
\* a parameter, and every rule reads stats and the thresholds.
generate_recommendations(test_results, stats) ==
    LET r1 == IF RatioLt(stats.success_rate, 8, 10)
              THEN << <<"Success rate (", FormatPercent1(stats.success_rate),
                        ") is below threshold. Review failing tests.">> >>
              ELSE <<>>
        avg_time == stats.execution_times.average
        r2 == IF RatioGt(avg_time, 30, 1)
              THEN << <<"Average execution time (", FormatFixed1(avg_time),
                        "s) exceeds threshold. Optimize slow tests.">> >>
              ELSE <<>>
        r3 == IF RatioGt(stats.error_rate, 2, 10)
              THEN << <<"Error rate (", FormatPercent1(stats.error_rate),
                        ") is too high. Investigate common failure patterns.">> >>
              ELSE <<>>
        r4 == IF stats.total_tests < 10
              THEN << <<"Consider expanding test coverage with more test cases.">> >>
              ELSE <<>>
        recommendations == r1 \o r2 \o r3 \o r4
    IN  IF Len(recommendations) = 0
        THEN << <<"All metrics within acceptable thresholds. Test suite performing well.">> >>
        ELSE recommendations

\* The distinct error types logged in a batch.
ErrorTypes(rs) == UNION { {rs[i].errors[j] : j \in DOMAIN rs[i].errors} : i \in DOMAIN rs }

\* The total length of the sequences of a sequence.
RECURSIVE SumLens(_)
SumLens(ss) == IF ss = <<>> THEN 0 ELSE Len(Head(ss)) + SumLens(Tail(ss))

\* Mutant: the mean is taken over the records with a measured time only.
perform_cross_validation_MeanOfMeasured(test_results) ==
    LET n == Cardinality({i \in DOMAIN test_results : test_results[i].execution_time # Zero})
        total == SumTimes(test_results)
        \* abs(t - avg) > 2 * avg with avg = total / n (0 on the empty batch)
        IsOutlier(r) == ExceedsTwiceMean(r.execution_time, total, n)
        outliers == SelectSeq(test_results, IsOutlier)
        incomplete == SelectSeq(test_results,
                                LAMBDA r : r.screenshots = 0 /\ r.artifacts = 0)
        c1 == [check_name |-> "execution_time_consistency",
               status |-> IF 10 * Len(outliers) <= Len(test_results) THEN "pass" ELSE "fail",
               outliers |-> [i \in DOMAIN outliers |-> outliers[i].test_id]]
        c2 == [check_name |-> "error_pattern_validation",
               status |-> IF Cardinality(ErrorTypes(test_results)) <= 3
                          THEN "pass" ELSE "warning"]
        c3 == [check_name |-> "artifact_completeness",
               status |-> IF Len(incomplete) = 0 THEN "pass" ELSE "warning",
               incomplete_tests |-> [i \in DOMAIN incomplete |-> incomplete[i].test_id]]
        validation_checks == <<c1, c2, c3>>
        passes == Cardinality({i \in 1..3 : validation_checks[i].status = "pass"})
    IN  [validation_checks |-> validation_checks,
         overall_validation_status |-> IF passes = 3 THEN "pass" ELSE "warning",
         cross_validation_score |-> Ratio(passes, 3)]

\* Mutant: check 2 counts the logged errors instead of their distinct types.
perform_cross_validation_CountsOccurrences(test_results) ==
    LET n == Len(test_results)
        total == SumTimes(test_results)
        \* abs(t - avg) > 2 * avg with avg = total / n (0 on the empty batch)
        IsOutlier(r) == ExceedsTwiceMean(r.execution_time, total, n)
        outliers == SelectSeq(test_results, IsOutlier)
        incomplete == SelectSeq(test_results,
                                LAMBDA r : r.screenshots = 0 /\ r.artifacts = 0)
        c1 == [check_name |-> "execution_time_consistency",
               status |-> IF 10 * Len(outliers) <= n THEN "pass" ELSE "fail",
               outliers |-> [i \in DOMAIN outliers |-> outliers[i].test_id]]
        c2 == [check_name |-> "error_pattern_validation",
               status |-> IF SumLens([i \in DOMAIN test_results |-> test_results[i].errors]) <= 3
                          THEN "pass" ELSE "warning"]
        c3 == [check_name |-> "artifact_completeness",
               status |-> IF Len(incomplete) = 0 THEN "pass" ELSE "warning",
               incomplete_tests |-> [i \in DOMAIN incomplete |-> incomplete[i].test_id]]
        validation_checks == <<c1, c2, c3>>
        passes == Cardinality({i \in 1..3 : validation_checks[i].status = "pass"})
    IN  [validation_checks |-> validation_checks,
         overall_validation_status |-> IF passes = 3 THEN "pass" ELSE "warning",
         cross_validation_score |-> Ratio(passes, 3)]

\* Mutant: check 3 looks at the screenshots only.
perform_cross_validation_ScreenshotsOnly(test_results) ==
    LET n == Len(test_results)
        total == SumTimes(test_results)
        \* abs(t - avg) > 2 * avg with avg = total / n (0 on the empty batch)
        IsOutlier(r) == ExceedsTwiceMean(r.execution_time, total, n)
        outliers == SelectSeq(test_results, IsOutlier)
        incomplete == SelectSeq(test_results,
                                LAMBDA r : r.screenshots = 0)
        c1 == [check_name |-> "execution_time_consistency",
               status |-> IF 10 * Len(outliers) <= n THEN "pass" ELSE "fail",
               outliers |-> [i \in DOMAIN outliers |-> outliers[i].test_id]]
        c2 == [check_name |-> "error_pattern_validation",
               status |-> IF Cardinality(ErrorTypes(test_results)) <= 3
                          THEN "pass" ELSE "warning"]
        c3 == [check_name |-> "artifact_completeness",
               status |-> IF Len(incomplete) = 0 THEN "pass" ELSE "warning",
               incomplete_tests |-> [i \in DOMAIN incomplete |-> incomplete[i].test_id]]
        validation_checks == <<c1, c2, c3>>
        passes == Cardinality({i \in 1..3 : validation_checks[i].status = "pass"})
    IN  [validation_checks |-> validation_checks,
         overall_validation_status |-> IF passes = 3 THEN "pass" ELSE "warning",
         cross_validation_score |-> Ratio(passes, 3)]

\* Mutant: a failed check 1 makes the overall status fail.
perform_cross_validation_FailPropagates(test_results) ==
    LET n == Len(test_results)
        total == SumTimes(test_results)
        \* abs(t - avg) > 2 * avg with avg = total / n (0 on the empty batch)
        IsOutlier(r) == ExceedsTwiceMean(r.execution_time, total, n)
        outliers == SelectSeq(test_results, IsOutlier)
        incomplete == SelectSeq(test_results,
                                LAMBDA r : r.screenshots = 0 /\ r.artifacts = 0)
        c1 == [check_name |-> "execution_time_consistency",
               status |-> IF 10 * Len(outliers) <= n THEN "pass" ELSE "fail",
               outliers |-> [i \in DOMAIN outliers |-> outliers[i].test_id]]
        c2 == [check_name |-> "error_pattern_validation",
               status |-> IF Cardinality(ErrorTypes(test_results)) <= 3
                          THEN "pass" ELSE "warning"]
        c3 == [check_name |-> "artifact_completeness",
               status |-> IF Len(incomplete) = 0 THEN "pass" ELSE "warning",
               incomplete_tests |-> [i \in DOMAIN incomplete |-> incomplete[i].test_id]]
        validation_checks == <<c1, c2, c3>>
        passes == Cardinality({i \in 1..3 : validation_checks[i].status = "pass"})
    IN  [validation_checks |-> validation_checks,
         overall_validation_status |-> IF passes = 3 THEN "pass"
                                      ELSE IF c1.status = "fail" THEN "fail" ELSE "warning",
         cross_validation_score |-> Ratio(passes, 3)]

\* Mutant: check 1 passes only when the outliers are less than a tenth of
\* the batch.
perform_cross_validation_StrictShare(test_results) ==
    LET n == Len(test_results)
        total == SumTimes(test_results)
        \* abs(t - avg) > 2 * avg with avg = total / n (0 on the empty batch)
        IsOutlier(r) == ExceedsTwiceMean(r.execution_time, total, n)
        outliers == SelectSeq(test_results, IsOutlier)
        incomplete == SelectSeq(test_results,
                                LAMBDA r : r.screenshots = 0 /\ r.artifacts = 0)
        c1 == [check_name |-> "execution_time_consistency",
               status |-> IF 10 * Len(outliers) < n THEN "pass" ELSE "fail",
               outliers |-> [i \in DOMAIN outliers |-> outliers[i].test_id]]
        c2 == [check_name |-> "error_pattern_validation",
               status |-> IF Cardinality(ErrorTypes(test_results)) <= 3
                          THEN "pass" ELSE "warning"]
        c3 == [check_name |-> "artifact_completeness",
               status |-> IF Len(incomplete) = 0 THEN "pass" ELSE "warning",
               incomplete_tests |-> [i \in DOMAIN incomplete |-> incomplete[i].test_id]]
        validation_checks == <<c1, c2, c3>>
        passes == Cardinality({i \in 1..3 : validation_checks[i].status = "pass"})
    IN  [validation_checks |-> validation_checks,
         overall_validation_status |-> IF passes = 3 THEN "pass" ELSE "warning",
         cross_validation_score |-> Ratio(passes, 3)]

perform_cross_validation(test_results) ==
    LET n == Len(test_results)
        total == SumTimes(test_results)
        \* abs(t - avg) > 2 * avg with avg = total / n (0 on the empty batch)
        IsOutlier(r) == ExceedsTwiceMean(r.execution_time, total, n)
        outliers == SelectSeq(test_results, IsOutlier)
        incomplete == SelectSeq(test_results,
                                LAMBDA r : r.screenshots = 0 /\ r.artifacts = 0)
        c1 == [check_name |-> "execution_time_consistency",
               status |-> IF 10 * Len(outliers) <= n THEN "pass" ELSE "fail",
               outliers |-> [i \in DOMAIN outliers |-> outliers[i].test_id]]
        c2 == [check_name |-> "error_pattern_validation",
               status |-> IF Cardinality(ErrorTypes(test_results)) <= 3
                          THEN "pass" ELSE "warning"]
        c3 == [check_name |-> "artifact_completeness",
               status |-> IF Len(incomplete) = 0 THEN "pass" ELSE "warning",
               incomplete_tests |-> [i \in DOMAIN incomplete |-> incomplete[i].test_id]]
        validation_checks == <<c1, c2, c3>>
        passes == Cardinality({i \in 1..3 : validation_checks[i].status = "pass"})
    IN  [validation_checks |-> validation_checks,
         overall_validation_status |-> IF passes = 3 THEN "pass" ELSE "warning",
         cross_validation_score |-> Ratio(passes, 3)]

\* Mutant: the execution time of a failed record is looked at before its
\* page errors.
TriageTier_TimeFirst(r) ==
    IF r.status = "failed"
    THEN IF RatioGt(r.execution_time, 30, 1) THEN "medium_priority"
         ELSE IF \E j \in DOMAIN r.errors : r.errors[j] = "page_error" THEN "high_priority"
         ELSE "low_priority"
    ELSE IF r.status = "error" THEN "high_priority"
    ELSE "none"

\* Mutant: the branch for the records of status error is missing.
TriageTier_SkipsErrors(r) ==
    IF r.status = "failed"
    THEN IF \E j \in DOMAIN r.errors : r.errors[j] = "page_error" THEN "high_priority"
         ELSE IF RatioGt(r.execution_time, 30, 1) THEN "medium_priority"
         ELSE "low_priority"
    ELSE "none"

\* Mutant: a failed record taking exactly max_execution_time counts as slow.
TriageTier_AtThreshold(r) ==
    IF r.status = "failed"
    THEN IF \E j \in DOMAIN r.errors : r.errors[j] = "page_error" THEN "high_priority"
         ELSE IF RatioGe(r.execution_time, 30, 1) THEN "medium_priority"
         ELSE "low_priority"
    ELSE IF r.status = "error" THEN "high_priority"
    ELSE "none"

\* The tier _generate_triage_notes files a record under ("none": no note).
TriageTier(r) ==
    IF r.status = "failed"
    THEN IF \E j \in DOMAIN r.errors : r.errors[j] = "page_error" THEN "high_priority"
         ELSE IF RatioGt(r.execution_time, 30, 1) THEN "medium_priority"
         ELSE "low_priority"
    ELSE IF r.status = "error" THEN "high_priority"
    ELSE "none"

\* The text of the note of a record.
TriageText(r) ==
    IF r.status = "error" THEN "Test execution error - fix test infrastructure"
    ELSE IF TriageTier(r) = "high_priority"
         THEN "Page errors detected - investigate immediately"
    ELSE IF TriageTier(r) = "medium_priority"
         THEN "Performance issues - timeout or slow execution"
    ELSE "General test failure - review test logic"

\* _generate_triage_notes: per tier, the notes f"{test_id}: {text}" of the
\* records filed under it, in the order of the batch.
generate_triage_notes(test_results) ==
    LET Notes(tier) ==
            LET rs == SelectSeq(test_results, LAMBDA r : TriageTier(r) = tier)
            IN  [i \in DOMAIN rs |-> <<rs[i].test_id, TriageText(rs[i])>>]
    IN  [high_priority |-> Notes("high_priority"),
         medium_priority |-> Notes("medium_priority"),
         low_priority |-> Notes("low_priority")]

\* _analyze_errors: the entries of failure_patterns, in the order of the batch:
\* per record one entry per logged error, then one of type test_failure when
\* the record has status failed (lines 158-183).
RECURSIVE FailurePatterns(_)
FailurePatterns(rs) ==
    IF rs = <<>> THEN <<>>
    ELSE LET r == Head(rs)
         IN  [j \in DOMAIN r.errors |-> [test_id |-> r.test_id, error_type |-> r.errors[j]]]
             \o (IF r.status = "failed"
                 THEN << [test_id |-> r.test_id, error_type |-> "test_failure"] >>
                 ELSE <<>>)
             \o FailurePatterns(Tail(rs))

\* _analyze_errors on a non-empty batch (on the empty one it raises, see
\* analyze_errors_raises): error_summary counts the logged errors per type;
\* common_errors, a digest of failure_patterns, is left out.
analyze_errors(test_results) ==
    LET n == Len(test_results)
        failure_patterns == FailurePatterns(test_results)
    IN  [error_summary |->
            [t \in ErrorTypes(test_results) |->
                SumLens([i \in DOMAIN test_results |->
                            SelectSeq(test_results[i].errors, LAMBDA e : e = t)])],
         failure_patterns |-> failure_patterns,
         error_rate_analysis |->
            [within_threshold |-> 10 * Len(failure_patterns) <= 2 * n,
             current_rate |-> IF n > 0 THEN Ratio(Len(failure_patterns), n) ELSE Zero]]

\* The sum of the fractions f[c], c in S.
RECURSIVE SumRatios(_, _)
SumRatios(f, S) ==
    IF S = {} THEN Zero
    ELSE LET c == CHOOSE c \in S : TRUE
             x == f[c]
             y == SumRatios(f, S \ {c})
         IN  Ratio(x[1] * y[2] + y[1] * x[2], x[2] * y[2])

\* _identify_flaky_tests: the ids of the passed records with logged errors.
identify_flaky_tests(test_results) ==
    LET flaky == SelectSeq(test_results, LAMBDA r : Len(r.errors) > 0 /\ r.status = "passed")
    IN  [i \in DOMAIN flaky |-> flaky[i].test_id]

\* Mutant: the overall reliability is the pass ratio of the whole batch.
analyze_reliability_PooledMean(test_results) ==
    LET CategoryOf(r) == Get(r, "category", "unknown")
        categories == {CategoryOf(test_results[i]) : i \in DOMAIN test_results}
        results(c) == SelectSeq(test_results, LAMBDA r : CategoryOf(r) = c)
        reliability_scores ==
            [c \in categories |-> Ratio(CountStatus(results(c), "passed"), Len(results(c)))]
        sum == SumRatios(reliability_scores, categories)
    IN  [category_reliability |-> reliability_scores,
         overall_reliability |->
            IF categories # {}
            THEN Ratio(CountStatus(test_results, "passed"), Len(test_results)) ELSE Zero,
         flaky_tests |-> identify_flaky_tests(test_results),
         repeatability_assessment |->
            [consistent_results |->
                Cardinality({c \in categories : RatioGe(reliability_scores[c], 9, 10)}),
             inconsistent_results |->
                Cardinality({c \in categories : RatioLt(reliability_scores[c], 7, 10)})]]

\* _analyze_reliability: the records are grouped by result.get("category",
\* "unknown"); the score of a category is passed / total of its records.
analyze_reliability(test_results) ==
    LET CategoryOf(r) == Get(r, "category", "unknown")
        categories == {CategoryOf(test_results[i]) : i \in DOMAIN test_results}
        results(c) == SelectSeq(test_results, LAMBDA r : CategoryOf(r) = c)
        reliability_scores ==
            [c \in categories |-> Ratio(CountStatus(results(c), "passed"), Len(results(c)))]
        sum == SumRatios(reliability_scores, categories)
    IN  [category_reliability |-> reliability_scores,
         overall_reliability |->
            IF categories # {} THEN Ratio(sum[1], sum[2] * Cardinality(categories)) ELSE Zero,
         flaky_tests |-> identify_flaky_tests(test_results),
         repeatability_assessment |->
            [consistent_results |->
                Cardinality({c \in categories : RatioGe(reliability_scores[c], 9, 10)}),
             inconsistent_results |->
                Cardinality({c \in categories : RatioLt(reliability_scores[c], 7, 10)})]]

\* The part of detailed_analysis the model keeps (lines 51-56).
detailed_analysis(test_results) ==
    [error_analysis |-> analyze_errors(test_results),
     reliability_analysis |-> analyze_reliability(test_results)]

\* analyze_results raises before it returns: the message of the exception, or
\* "" when the analysis itself raises nothing.
analyze_results_error(test_results) ==
    IF analyze_errors_raises(test_results) THEN "division by zero"
    ELSE IF generate_recommendations_raises(calculate_basic_stats(test_results))
         THEN "'execution_times'"
    ELSE ""

\* The analysis dict analyze_results builds.
analyze_results(test_results) ==
    LET stats == calculate_basic_stats(test_results)
    IN  [summary |-> stats,
         detailed_analysis |-> detailed_analysis(test_results),
         validation_results |-> perform_cross_validation(test_results),
         recommendations |-> generate_recommendations(test_results, stats),
         triage_notes |-> generate_triage_notes(test_results)]

\* ---------------------------------------------------------------- ranker
\* RankerAgent.rank_test_cases: the first num_select candidates are selected,
\* the rest is reported as placeholders rejected_0, rejected_1, ...
rank_test_cases(test_cases, num_select) ==
    LET selected_cases == SliceTo(test_cases, num_select)
        rejected_cases == SliceFrom(test_cases, num_select)
    IN  [total_candidates |-> Len(test_cases),
         selected_count |-> Len(selected_cases),
         rejected_count |-> Len(rejected_cases),
         selected_test_cases |-> selected_cases,
         rejected_test_cases |->
            [i \in 1..Len(rejected_cases) |-> <<"rejected", i - 1>>]]

\* ---------------------------------------------------------------- phase results
\* The PhaseResult dicts of the four _execute_*_phase methods, on success and
\* in the except branch (e is str(e) of the exception caught).
planning_success(test_cases) ==
    [status |-> "success", test_cases |-> test_cases,
     test_cases_generated |-> Len(test_cases)]

\* Mutant: the fallback hands a placeholder test case on instead of none.
planning_failed_Placeholder(e) ==
    [status |-> "failed", error |-> e, test_cases |-> <<1>>,
     test_cases_generated |-> 0]

planning_failed(e) ==
    [status |-> "failed", error |-> e, test_cases |-> <<>>,
     test_cases_generated |-> 0]

ranking_success(ranking_result) ==
    [status |-> "success",
     selected_test_cases |-> ranking_result.selected_test_cases,
     rejected_test_cases |-> ranking_result.rejected_test_cases,
     ranking_details |-> ranking_result]

\* Mutant: the fallback selects every candidate instead of the first num_select.
ranking_failed_All(test_cases, num_select, e) ==
    [status |-> "failed", error |-> e,
     selected_test_cases |-> test_cases,
     rejected_test_cases |-> <<>>]

ranking_failed(test_cases, num_select, e) ==
    [status |-> "failed", error |-> e,
     selected_test_cases |-> SliceTo(test_cases, num_select),
     rejected_test_cases |-> <<>>]

execution_success(test_results) ==
    LET passed_count == CountStatus(test_results, "passed")
        failed_count == CountStatus(test_results, "failed")
        error_count == CountStatus(test_results, "error")
    IN  [status |-> "success",
         test_results |-> test_results,
         execution_statistics |->
            [total_executed |-> Len(test_results),
             passed |-> passed_count,
             failed |-> failed_count,
             errors |-> error_count,
             success_rate |-> IF test_results # <<>>
                              THEN Ratio(passed_count, Len(test_results))
                              ELSE Zero]]

\* Mutant: the fallback reports the failure as one error record.
execution_failed_ErrorRecord(e) ==
    [status |-> "failed", error |-> e,
     test_results |-> <<Record(0, Outcome("error", 5, <<>>, 0))>>,
     execution_statistics |->
        [total_executed |-> 1, passed |-> 0, failed |-> 0, errors |-> 1]]

execution_failed(e) ==
    [status |-> "failed", error |-> e, test_results |-> <<>>,
     execution_statistics |->
        [total_executed |-> 0, passed |-> 0, failed |-> 0, errors |-> 0]]

analysis_success(analysis_result) ==
    [status |-> "success", analysis_result |-> analysis_result]

\* Mutant: the fallback payload carries a recommendation of its own.
analysis_failed_WithNote(e) ==
    [status |-> "failed", error |-> e,
     analysis_result |-> [recommendations |-> << <<"Analysis failed. Rerun the analysis.">> >>]]

analysis_failed(e) ==
    [status |-> "failed", error |-> e, analysis_result |-> EmptyDict]

\* ---------------------------------------------------------------- report
\* Mutant: the thresholds are compared with > instead of >=.
Verdict_Strict(passed_tests, total_tests) ==
    LET overall_success_rate ==
            IF total_tests > 0 THEN Ratio(passed_tests, total_tests) ELSE Zero
    IN  IF RatioGt(overall_success_rate, 9, 10) THEN "EXCELLENT"
        ELSE IF RatioGt(overall_success_rate, 8, 10) THEN "GOOD"
        ELSE IF RatioGt(overall_success_rate, 6, 10) THEN "FAIR"
        ELSE "POOR"

\* The verdict of _generate_final_report for passed_tests of total_tests.
Verdict(passed_tests, total_tests) ==
    LET overall_success_rate ==
            IF total_tests > 0 THEN Ratio(passed_tests, total_tests) ELSE Zero
    IN  IF RatioGe(overall_success_rate, 9, 10) THEN "EXCELLENT"
        ELSE IF RatioGe(overall_success_rate, 8, 10) THEN "GOOD"
        ELSE IF RatioGe(overall_success_rate, 6, 10) THEN "FAIR"
        ELSE "POOR"

\* The recommendations _generate_final_report collects from the analysis phase.
all_recommendations(analysis_phase) ==
    IF "analysis_result" \in DOMAIN analysis_phase
    THEN Get(analysis_phase.analysis_result, "recommendations", <<>>)
    ELSE <<>>

generate_final_report(report) ==
    LET planning_phase == Get(report.phases, "planning", EmptyDict)
        execution_phase == Get(report.phases, "execution", EmptyDict)
        analysis_phase == Get(report.phases, "analysis", EmptyDict)
        statistics == Get(execution_phase, "execution_statistics", EmptyDict)
        total_tests == Get(statistics, "total_executed", 0)
        passed_tests == Get(statistics, "passed", 0)
    IN  [overall_verdict |-> Verdict(passed_tests, total_tests),
         executive_summary |->
            [test_cases_generated |-> Get(planning_phase, "test_cases_generated", 0),
             test_cases_executed |-> total_tests,
             overall_success_rate |->
                IF total_tests > 0 THEN Ratio(passed_tests, total_tests) ELSE Zero],
         recommendations |-> all_recommendations(analysis_phase),
         reproducibility_stats |->
            [workflow_reproducible |->
                \A k \in DOMAIN report.phases : report.phases[k].status = "success",
             cross_validation_performed |->
                "validation_results" \in DOMAIN Get(analysis_phase, "analysis_result", EmptyDict)]]

\* ---------------------------------------------------------------- workflow
\* The test cases the planner returns: n descriptors with distinct ids.
TestCases(n) == [i \in 1..n |-> i]

\* workflow_report as execute_full_workflow creates it.
NewReport == [phases |-> EmptyDict, final_verdict |-> "None"]

Init ==
    /\ config \in [num_execute : 0..MaxExecute]
    /\ observer \in Observers
    /\ pc = "notify_planning"
    /\ workflow_report = NewReport
    /\ exc = ""
    /\ result = EmptyDict
    /\ raised = <<>>
    /\ started = <<>>
    /\ calls = <<>>
    /\ progress = <<>>
    /\ analyzer = Idle
    /\ executor = Idle
    /\ service = Idle

\* workflow_report["phases"][name] = phase_result
RecordPhase(name, phase_result) ==
    workflow_report' = [workflow_report EXCEPT !.phases = Put(@, name, phase_result)]

\* One collaborator invocation: its operation, its argument, and the message
\* of the exception it raised ("" when it returned).
Call(op, arg, outcome) == [op |-> op, arg |-> arg, outcome |-> outcome]

\* if progress_callback: await progress_callback(stage, percent, message)
\* inside the try block: an exception of the observer goes to the handler.
Notify(at, stage, percent, message, next) ==
    /\ pc = at
    /\ IF observer = "none"
       THEN /\ pc' = next
            /\ UNCHANGED <<progress, exc, raised>>
       ELSE /\ progress' = Append(progress,
                                  [stage |-> stage, percent |-> percent, message |-> message])
            /\ \/ /\ pc' = next
                  /\ UNCHANGED <<exc, raised>>
               \/ /\ observer = "faulty"
                  /\ \E m \in ErrMsgs :
                        /\ exc' = m
                        /\ raised' = Append(raised, [at |-> at, message |-> m])
                  /\ pc' = "except"
    /\ UNCHANGED <<config, observer, workflow_report, result, started, calls, others>>

NotifyPlanning ==
    Notify("notify_planning", "Planning", 10, "Generating test cases with LangChain",
           "planning")

\* Mutant: the planning phase invokes the generator a second time after a
\* failure and records what the second invocation gives.
PlanningPhase_Retries ==
    /\ pc = "planning"
    /\ started' = Append(started, "planning")
    /\ \/ \E n \in 0..MaxCandidates :
            /\ calls' = Append(calls, Call("generate_test_cases", <<>>, ""))
            /\ RecordPhase("planning", planning_success(TestCases(n)))
       \/ \E e \in ErrMsgs : \E n \in 0..MaxCandidates :
            /\ calls' = calls \o << Call("generate_test_cases", <<>>, e),
                                    Call("generate_test_cases", <<>>, "") >>
            /\ RecordPhase("planning", planning_success(TestCases(n)))
    /\ pc' = "notify_ranking"
    /\ UNCHANGED <<config, observer, exc, result, raised, progress, others>>

\* _execute_planning_phase, and the store of its result.
PlanningPhase ==
    /\ pc = "planning"
    /\ started' = Append(started, "planning")
    /\ \/ \E n \in 0..MaxCandidates :
            /\ calls' = Append(calls, Call("generate_test_cases", <<>>, ""))
            /\ RecordPhase("planning", planning_success(TestCases(n)))
       \/ \E e \in ErrMsgs :
            /\ calls' = Append(calls, Call("generate_test_cases", <<>>, e))
            /\ RecordPhase("planning", planning_failed(e))
    /\ pc' = "notify_ranking"
    /\ UNCHANGED <<config, observer, exc, result, raised, progress, others>>

NotifyRanking ==
    Notify("notify_ranking", "Ranking", 30, "Ranking and selecting top test cases",
           "ranking")

\* Mutant: the orchestrator cuts the candidates down before it hands them to
\* the ranker.
RankingPhase_PreTruncated ==
    /\ pc = "ranking"
    /\ started' = Append(started, "ranking")
    /\ LET test_cases == SliceTo(workflow_report.phases["planning"].test_cases,
                                 config.num_execute)
           num_select == config.num_execute
       IN  \/ /\ calls' = Append(calls, Call("rank_test_cases", test_cases, ""))
              /\ RecordPhase("ranking",
                             ranking_success(rank_test_cases(test_cases, num_select)))
           \/ \E e \in ErrMsgs :
                /\ calls' = Append(calls, Call("rank_test_cases", test_cases, e))
                /\ RecordPhase("ranking", ranking_failed(test_cases, num_select, e))
    /\ pc' = "notify_execution"
    /\ UNCHANGED <<config, observer, exc, result, raised, progress, others>>

\* _execute_ranking_phase(planning_phase["test_cases"]), and the store of its result.
RankingPhase ==
    /\ pc = "ranking"
    /\ started' = Append(started, "ranking")
    /\ LET test_cases == workflow_report.phases["planning"].test_cases
           num_select == config.num_execute
       IN  \/ /\ calls' = Append(calls, Call("rank_test_cases", test_cases, ""))
              /\ RecordPhase("ranking",
                             ranking_success(rank_test_cases(test_cases, num_select)))
           \/ \E e \in ErrMsgs :
                /\ calls' = Append(calls, Call("rank_test_cases", test_cases, e))
                /\ RecordPhase("ranking", ranking_failed(test_cases, num_select, e))
    /\ pc' = "notify_execution"
    /\ UNCHANGED <<config, observer, exc, result, raised, progress, others>>

NotifyExecution ==
    Notify("notify_execution", "Execution", 50, "Executing selected test cases",
           "execution")

\* Mutant: the execution phase without its except branch: an exception of the
\* executor leaves the phase method.
ExecutionPhase_Propagates ==
    /\ pc = "execution"
    /\ started' = Append(started, "execution")
    /\ LET test_cases == workflow_report.phases["ranking"].selected_test_cases
       IN  \/ \E test_results \in Batches(test_cases) :
                /\ calls' = Append(calls, Call("execute_test_cases", test_cases, ""))
                /\ RecordPhase("execution", execution_success(test_results))
                /\ pc' = "notify_analysis"
                /\ exc' = exc
           \/ \E e \in ErrMsgs :
                /\ calls' = Append(calls, Call("execute_test_cases", test_cases, e))
                /\ exc' = e
                /\ pc' = "except"
                /\ UNCHANGED workflow_report
    /\ UNCHANGED <<config, observer, result, raised, progress, others>>

\* _execute_execution_phase(ranking_phase["selected_test_cases"], test_run_id)
ExecutionPhase ==
    /\ pc = "execution"
    /\ started' = Append(started, "execution")
    /\ LET test_cases == workflow_report.phases["ranking"].selected_test_cases
       IN  \/ \E test_results \in Batches(test_cases) :
                /\ calls' = Append(calls, Call("execute_test_cases", test_cases, ""))
                /\ RecordPhase("execution", execution_success(test_results))
           \/ \E e \in ErrMsgs :
                /\ calls' = Append(calls, Call("execute_test_cases", test_cases, e))
                /\ RecordPhase("execution", execution_failed(e))
    /\ pc' = "notify_analysis"
    /\ UNCHANGED <<config, observer, exc, result, raised, progress, others>>

NotifyAnalysis ==
    Notify("notify_analysis", "Analysis", 80,
           "Analyzing results and performing validation", "analysis")

\* The ways a call analyze_results(test_results) can end: "" for a return, or
\* the message of the exception: the one the analysis itself raises, else one
\* raised by the write of the analysis report file.
AnalyzeOutcomes(test_results) ==
    IF analyze_results_error(test_results) # ""
    THEN {analyze_results_error(test_results)}
    ELSE {""} \cup ErrMsgs

\* _execute_analysis_phase(execution_phase["test_results"], test_run_id)
AnalysisPhase ==
    /\ pc = "analysis"
    /\ started' = Append(started, "analysis")
    /\ LET test_results == workflow_report.phases["execution"].test_results
       IN  \E e \in AnalyzeOutcomes(test_results) :
             /\ calls' = Append(calls, Call("analyze_results", test_results, e))
             /\ RecordPhase("analysis",
                            IF e = "" THEN analysis_success(analyze_results(test_results))
                            ELSE analysis_failed(e))
    /\ pc' = "notify_reporting"
    /\ UNCHANGED <<config, observer, exc, result, raised, progress, others>>

NotifyReporting ==
    Notify("notify_reporting", "Reporting", 95, "Generating final report", "reporting")

\* Mutant: the final report reads the recommendations without a default, so
\* the step aborts with KeyError when the analysis phase has failed.
Reporting_RequiresAnalysis ==
    /\ pc = "reporting"
    /\ started' = Append(started, "reporting")
    /\ IF "recommendations" \in DOMAIN workflow_report.phases["analysis"].analysis_result
       THEN /\ LET final_report == generate_final_report(workflow_report)
               IN  workflow_report' =
                     Put(Put(Put(workflow_report, "final_report", final_report),
                             "final_verdict", final_report.overall_verdict),
                         "status", "completed")
            /\ pc' = "notify_complete"
            /\ UNCHANGED <<exc, raised>>
       ELSE /\ exc' = "'recommendations'"
            /\ raised' = Append(raised, [at |-> "reporting", message |-> "'recommendations'"])
            /\ pc' = "except"
            /\ UNCHANGED workflow_report
    /\ UNCHANGED <<config, observer, result, calls, progress, others>>

\* Lines 104-109: the final report, the verdict and status completed.
Reporting ==
    /\ pc = "reporting"
    /\ started' = Append(started, "reporting")
    /\ LET final_report == generate_final_report(workflow_report)
       IN  workflow_report' =
             Put(Put(Put(workflow_report, "final_report", final_report),
                     "final_verdict", final_report.overall_verdict),
                 "status", "completed")
    /\ pc' = "notify_complete"
    /\ UNCHANGED <<config, observer, exc, result, raised, calls, progress, others>>

\* Mutant: the run goes back to the planning phase after the final report.
NotifyComplete_Restart ==
    Notify("notify_complete", "Complete", 100, "Workflow completed successfully",
           "planning")

NotifyComplete ==
    Notify("notify_complete", "Complete", 100, "Workflow completed successfully",
           "return")

\* Mutant: the handler records a fixed text instead of str(e).
Except_GenericMessage ==
    /\ pc = "except"
    /\ workflow_report' =
          Put(Put(workflow_report, "status", "failed"), "error", "Workflow failed")
    /\ pc' = "notify_failed"
    /\ UNCHANGED <<config, observer, exc, result, raised, started, calls, progress, others>>

\* except Exception as e: lines 114-118.
Except ==
    /\ pc = "except"
    /\ workflow_report' = Put(Put(workflow_report, "status", "failed"), "error", exc)
    /\ pc' = "notify_failed"
    /\ UNCHANGED <<config, observer, exc, result, raised, started, calls, progress, others>>

\* Lines 120-121: the notification inside the handler; an exception of the
\* observer here is caught by nothing and leaves execute_full_workflow.
NotifyFailed ==
    /\ pc = "notify_failed"
    /\ IF observer = "none"
       THEN /\ pc' = "return"
            /\ UNCHANGED <<progress, exc, raised>>
       ELSE /\ progress' = Append(progress,
                                  [stage |-> "Failed", percent |-> 0,
                                   message |-> <<"Workflow failed: ", exc>>])
            /\ \/ /\ pc' = "return"
                  /\ UNCHANGED <<exc, raised>>
               \/ /\ observer = "faulty"
                  /\ \E m \in ErrMsgs :
                        /\ exc' = m
                        /\ raised' = Append(raised, [at |-> "notify_failed", message |-> m])
                  /\ pc' = "raised"
    /\ UNCHANGED <<config, observer, workflow_report, result, started, calls, others>>

\* return workflow_report
Return ==
    /\ pc = "return"
    /\ result' = workflow_report
    /\ pc' = "returned"
    /\ UNCHANGED <<config, observer, workflow_report, exc, raised, started, calls, progress, others>>

Next ==
    \/ NotifyPlanning \/ PlanningPhase
    \/ NotifyRanking \/ RankingPhase
    \/ NotifyExecution \/ ExecutionPhase
    \/ NotifyAnalysis \/ AnalysisPhase
    \/ NotifyReporting \/ Reporting
    \/ NotifyComplete
    \/ Except \/ NotifyFailed \/ Return

Spec == Init /\ [][Next]_vars

\* ---------------------------------------------------------------- runs at the reporting step
\* A batch of p passed, f failed and e error records, in that order.
BatchOf(p, f, e) ==
    [i \in 1..(p + f + e) |->
        Record(i, IF i <= p THEN Outcome("passed", 5, <<>>, 1)
                  ELSE IF i <= p + f THEN Outcome("failed", 5, <<"page_error">>, 1)
                  ELSE Outcome("error", 5, <<>>, 0))]

\* workflow_report of a run whose planner, ranker and executor returned, the
\* executor with test_results, and whose analyzer ended with outcome a.
ReportBeforeReporting(test_results, a) ==
    LET test_cases == TestCases(Len(test_results))
    IN  [NewReport EXCEPT !.phases =
            [planning |-> planning_success(test_cases),
             ranking |-> ranking_success(rank_test_cases(test_cases, Len(test_cases))),
             execution |-> execution_success(test_results),
             analysis |-> IF a = "" THEN analysis_success(analyze_results(test_results))
                          ELSE analysis_failed(a)]]

\* The runs that have reached the reporting step (line 100) with batches of up
\* to MaxTotal records: the state execute_full_workflow is in after its four
\* phases, with the history of the calls it has made.
InitReport ==
    /\ observer \in Observers
    /\ \E p \in 0..MaxTotal : \E f \in 0..(MaxTotal - p) : \E e \in 0..(MaxTotal - p - f) :
         LET test_results == BatchOf(p, f, e)
             test_cases == TestCases(p + f + e)
         IN  /\ config = [num_execute |-> p + f + e]
             /\ \E a \in AnalyzeOutcomes(test_results) :
                  /\ workflow_report = ReportBeforeReporting(test_results, a)
                  /\ calls = << Call("generate_test_cases", <<>>, ""),
                                Call("rank_test_cases", test_cases, ""),
                                Call("execute_test_cases", test_cases, ""),
                                Call("analyze_results", test_results, a) >>
    /\ pc = "notify_reporting"
    /\ exc = ""
    /\ result = EmptyDict
    /\ raised = <<>>
    /\ started = <<"planning", "ranking", "execution", "analysis">>
    /\ progress =
         IF observer = "none" THEN <<>>
         ELSE << [stage |-> "Planning", percent |-> 10,
                  message |-> "Generating test cases with LangChain"],
                 [stage |-> "Ranking", percent |-> 30,
                  message |-> "Ranking and selecting top test cases"],
                 [stage |-> "Execution", percent |-> 50,
                  message |-> "Executing selected test cases"],
                 [stage |-> "Analysis", percent |-> 80,
                  message |-> "Analyzing results and performing validation"] >>
    /\ analyzer = Idle
    /\ executor = Idle
    /\ service = Idle

NextReport ==
    \/ NotifyReporting \/ Reporting \/ NotifyComplete
    \/ Except \/ NotifyFailed \/ Return

SpecReport == InitReport /\ [][NextReport]_vars

\* ---------------------------------------------------------------- one call of analyze_results
\* No workflow run is part of the runs of the component specifications.
WorkflowIdle ==
    /\ config = [num_execute |-> 0]
    /\ observer = "none"
    /\ pc = "idle"
    /\ workflow_report = NewReport
    /\ exc = ""
    /\ result = EmptyDict
    /\ raised = <<>>
    /\ started = <<>>
    /\ calls = <<>>
    /\ progress = <<>>

\* The records a batch given to the analyzer can hold: executed ones, a record still in its initial status running (executor line 116), a
\* record without a measured execution time, a slow failed record whose page
\* error is not its first error, an error record with logged errors, and a
\* failed record with a saved artifact and no screenshot that took exactly
\* max_execution_time.
AnalyzerOutcomes ==
    { Outcome("passed", 5, <<>>, 1), Outcome("passed", 40, <<>>, 1),
      Outcome("failed", 5, <<"page_error">>, 1), Outcome("failed", 40, <<>>, 1),
      Outcome("error", 5, <<>>, 0) }
                 \cup { Outcome("running", 5, <<>>, 0), Outcome("passed", 0, <<>>, 1),
                        Outcome("failed", 40, <<"console_error", "page_error">>, 1),
                        Outcome("error", 5, <<"network_error", "timeout_error">>, 0),
                        [Outcome("failed", 30, <<>>, 0) EXCEPT !.artifacts = 1] }

AnalyzerBatches ==
    UNION { { [i \in 1..n |-> Record(i, f[i])] : f \in [1..n -> AnalyzerOutcomes] } :
            n \in 0..MaxBatch }

\* analyze_results(test_results, test_run_id) is entered.
InitAnalyzer ==
    /\ WorkflowIdle
    /\ \E test_results \in AnalyzerBatches :
          analyzer = [pc |-> "stats", test_results |-> test_results,
                      analysis |-> EmptyDict, error |-> "", now |-> 1,
                      file |-> EmptyDict, previous |-> EmptyDict]
    /\ executor = Idle
    /\ service = Idle

\* Line 45: stats = self._calculate_basic_stats(test_results)
CalculateBasicStats ==
    /\ analyzer.pc = "stats"
    /\ analyzer' = [analyzer EXCEPT
                      !.analysis = Put(@, "summary", calculate_basic_stats(analyzer.test_results)),
                      !.pc = "detailed"]
    /\ UNCHANGED <<workflow, executor, service>>

\* Mutant: the error analysis takes the logged errors out of the records.
DetailedAnalysis_DrainsErrors ==
    /\ analyzer.pc = "detailed"
    /\ analyzer' = IF analyze_errors_raises(analyzer.test_results)
                   THEN [analyzer EXCEPT !.pc = "raised", !.error = "division by zero"]
                   ELSE [analyzer EXCEPT
                           !.test_results = [i \in DOMAIN @ |-> [@[i] EXCEPT !.errors = <<>>]],
                           !.pc = "validation"]
    /\ UNCHANGED <<workflow, executor, service>>

\* Lines 52-55: the detailed analysis; _analyze_errors raises on the empty batch.
DetailedAnalysis ==
    /\ analyzer.pc = "detailed"
    /\ analyzer' = IF analyze_errors_raises(analyzer.test_results)
                   THEN [analyzer EXCEPT !.pc = "raised", !.error = "division by zero"]
                   ELSE [analyzer EXCEPT
                           !.analysis = Put(@, "detailed_analysis",
                                            detailed_analysis(analyzer.test_results)),
                           !.pc = "validation"]
    /\ UNCHANGED <<workflow, executor, service>>

\* Line 57: validation_results
CrossValidation ==
    /\ analyzer.pc = "validation"
    /\ analyzer' = [analyzer EXCEPT
                      !.analysis = Put(@, "validation_results",
                                       perform_cross_validation(analyzer.test_results)),
                      !.pc = "recommendations"]
    /\ UNCHANGED <<workflow, executor, service>>

\* Mutant: the recommendations also look at the errors logged in the records.
Recommendations_ReadsRecords ==
    /\ analyzer.pc = "recommendations"
    /\ analyzer' = IF generate_recommendations_raises(analyzer.analysis["summary"])
                   THEN [analyzer EXCEPT !.pc = "raised", !.error = "'execution_times'"]
                   ELSE [analyzer EXCEPT
                           !.analysis = Put(@, "recommendations",
                                            generate_recommendations(analyzer.test_results,
                                                                     analyzer.analysis["summary"])
                                            \o (IF ErrorTypes(analyzer.test_results) # {}
                                                THEN << <<"Investigate the logged errors.">> >>
                                                ELSE <<>>)),
                           !.pc = "triage"]
    /\ UNCHANGED <<workflow, executor, service>>

\* Line 58: recommendations
Recommendations ==
    /\ analyzer.pc = "recommendations"
    /\ analyzer' = IF generate_recommendations_raises(analyzer.analysis["summary"])
                   THEN [analyzer EXCEPT !.pc = "raised", !.error = "'execution_times'"]
                   ELSE [analyzer EXCEPT
                           !.analysis = Put(@, "recommendations",
                                            generate_recommendations(analyzer.test_results,
                                                                     analyzer.analysis["summary"])),
                           !.pc = "triage"]
    /\ UNCHANGED <<workflow, executor, service>>

\* Lines 59-65: triage_notes, and the metadata with the time of the call.
TriageNotes ==
    /\ analyzer.pc = "triage"
    /\ analyzer' = [analyzer EXCEPT
                      !.analysis = Put(Put(@, "triage_notes",
                                           generate_triage_notes(analyzer.test_results)),
                                       "metadata",
                                       [analyzed_by |-> "AnalyzerAgent",
                                        timestamp |-> analyzer.now]),
                      !.pc = "save"]
    /\ UNCHANGED <<workflow, executor, service>>

\* What a file holds when the write into it has failed after open(path, "w")
\* has truncated it: no JSON document.
PartialFile == [partial |-> TRUE]

\* Lines 68-70: the write of the analysis report file, which can raise: open()
\* before it has touched the file, or json.dump after open() has truncated it.
SaveAnalysis ==
    /\ analyzer.pc = "save"
    /\ \/ analyzer' = [analyzer EXCEPT !.file = analyzer.analysis, !.pc = "return"]
       \/ \E e \in ErrMsgs : analyzer' = [analyzer EXCEPT !.pc = "raised", !.error = e]
       \/ \E e \in ErrMsgs :
            analyzer' = [analyzer EXCEPT !.file = PartialFile, !.pc = "raised", !.error = e]
    /\ UNCHANGED <<workflow, executor, service>>

\* Line 73: return analysis
ReturnAnalysis ==
    /\ analyzer.pc = "return"
    /\ analyzer' = [analyzer EXCEPT !.pc = "returned"]
    /\ UNCHANGED <<workflow, executor, service>>

\* A batch of p passed, f failed and e error records in that order (the failed
\* ones with one page error, the error ones with three errors of other types
\* and no screenshot), the first z of them without a measured time,
\* the last s of them slow (40 s), the others taking 5 s; reversed if rev.
LargeBatch(p, f, e, z, s, rev) ==
    LET n == p + f + e
        At(i) == LET st == IF i <= p THEN "passed" ELSE IF i <= p + f THEN "failed" ELSE "error"
                     t == IF i <= z THEN 0 ELSE IF i > n - s THEN 40 ELSE 5
                 IN  Outcome(st, t,
                             IF st = "failed" THEN <<"page_error">>
                             ELSE IF st = "error"
                                  THEN <<"network_error", "timeout_error", "console_error">>
                             ELSE <<>>,
                             IF st = "error" THEN 0 ELSE 1)
    IN  [i \in 1..n |-> Record(i, At(IF rev THEN n + 1 - i ELSE i))]

\* analyze_results is entered with a batch of up to MaxTotal records.
InitAnalyzerLarge ==
    /\ WorkflowIdle
    /\ \E p \in 0..MaxTotal : \E f \in 0..(MaxTotal - p) : \E e \in 0..(MaxTotal - p - f) :
       \E z \in 0..(p + f + e) : \E s \in 0..(p + f + e - z) : \E rev \in BOOLEAN :
          analyzer = [pc |-> "stats", test_results |-> LargeBatch(p, f, e, z, s, rev),
                      analysis |-> EmptyDict, error |-> "", now |-> 1,
                      file |-> EmptyDict, previous |-> EmptyDict]
    /\ executor = Idle
    /\ service = Idle

NextAnalyzer ==
    \/ CalculateBasicStats \/ DetailedAnalysis \/ CrossValidation
    \/ Recommendations \/ TriageNotes \/ SaveAnalysis \/ ReturnAnalysis

SpecAnalyzer == InitAnalyzer /\ [][NextAnalyzer]_vars

SpecAnalyzerLarge == InitAnalyzerLarge /\ [][NextAnalyzer]_vars

\* The records of the batches given to _perform_cross_validation: those the
\* executor can return, with Playwright and without it, and those a batch can
\* hold besides.
ValidationOutcomes ==
    ExecOutcomes \cup AnalyzerOutcomes \cup {MockOutcome(k) : k \in 1..3}

\* _perform_cross_validation(test_results) called on its own, on any batch,
\* the empty one included.
InitValidation ==
    /\ WorkflowIdle
    /\ \E n \in 0..MaxBatch : \E f \in [1..n -> ValidationOutcomes] :
          analyzer = [pc |-> "validation",
                      test_results |-> [i \in 1..n |-> Record(i, f[i])],
                      analysis |-> EmptyDict, error |-> "", now |-> 1,
                      file |-> EmptyDict, previous |-> EmptyDict]
    /\ executor = Idle
    /\ service = Idle

SpecValidation == InitValidation /\ [][CrossValidation]_vars

\* The records given to _analyze_reliability: passed without and with a
\* logged error, and failed; without a category or with one of two.
ReliabilityRecords ==
    LET outcomes == { Outcome("passed", 5, <<>>, 1),
                      Outcome("passed", 5, <<"console_error">>, 1),
                      Outcome("failed", 5, <<"page_error">>, 1) }
    IN  outcomes \cup { o @@ [category |-> c] :
                          o \in outcomes, c \in {"basic_gameplay", "edge_cases"} }

ReliabilityBatches ==
    UNION { { [i \in 1..n |-> Record(i, f[i])] : f \in [1..n -> ReliabilityRecords] } :
            n \in 0..MaxBatch }

\* _analyze_reliability(test_results) called on its own, on any batch, the
\* empty one included.
InitReliability ==
    /\ WorkflowIdle
    /\ \E test_results \in ReliabilityBatches :
          analyzer = [pc |-> "reliability", test_results |-> test_results,
                      analysis |-> EmptyDict, error |-> "", now |-> 1,
                      file |-> EmptyDict, previous |-> EmptyDict]
    /\ executor = Idle
    /\ service = Idle

\* Lines 238-263: the call returns its dict.
AnalyzeReliability ==
    /\ analyzer.pc = "reliability"
    /\ analyzer' = [analyzer EXCEPT
                      !.analysis = Put(@, "reliability_analysis",
                                       analyze_reliability(analyzer.test_results)),
                      !.pc = "returned"]
    /\ UNCHANGED <<workflow, executor, service>>

SpecReliability == InitReliability /\ [][AnalyzeReliability]_vars

\* The batches of a second call after a call on batch b: b itself, b in the
\* opposite order, b with the logged errors of its records left out, b with
\* the measured times exchanged between its records, b without its first record.
ReverseBatch(b) == [i \in DOMAIN b |-> b[Len(b) + 1 - i]]
StripErrors(b) == [i \in DOMAIN b |-> [b[i] EXCEPT !.errors = <<>>]]
ExchangeTimes(b) ==
    [i \in DOMAIN b |-> [b[i] EXCEPT !.execution_time = b[Len(b) + 1 - i].execution_time]]
SecondBatches(b) ==
    {b, ReverseBatch(b), StripErrors(b), ExchangeTimes(b)}
        \cup (IF Len(b) > 0 THEN {Tail(b)} ELSE {})

\* A second call analyze_results(test_results, test_run_id) on the same
\* agent and with the same run id, after the first has returned or raised.
\* The agent keeps nothing of a call but the report file (lines 26-37, 68-70);
\* the analysis dict of the call is a new one (line 47).
AnalyzeAgain ==
    /\ analyzer.pc \in {"returned", "raised"}
    /\ analyzer.previous = EmptyDict
    /\ \E b \in SecondBatches(analyzer.test_results) :
          analyzer' = [pc |-> "stats", test_results |-> b,
                       analysis |-> EmptyDict, error |-> "", now |-> analyzer.now + 1,
                       file |-> analyzer.file,
                       previous |-> [pc |-> analyzer.pc,
                                     test_results |-> analyzer.test_results,
                                     analysis |-> analyzer.analysis,
                                     error |-> analyzer.error,
                                     file |-> analyzer.file]]
    /\ UNCHANGED <<workflow, executor, service>>

SpecAnalyzerTwice == InitAnalyzer /\ [][NextAnalyzer \/ AnalyzeAgain]_vars

\* ---------------------------------------------------------------- runs from the analysis step
\* The runs that have reached the analysis step (line 92) with an executed
\* batch of up to MaxTotal records of any mix of statuses, with any number
\* of slow records and at most one record without a measured time: the state
\* execute_full_workflow is in after its first three phases.
InitEndToEnd ==
    /\ observer \in Observers
    /\ \E p \in 0..MaxTotal : \E f \in 0..(MaxTotal - p) : \E e \in 0..(MaxTotal - p - f) :
       \E z \in 0..Min(1, p + f + e) : \E s \in 0..(p + f + e - z) : \E rev \in BOOLEAN :
         LET test_results == LargeBatch(p, f, e, z, s, rev)
             test_cases == TestCases(p + f + e)
         IN  /\ config = [num_execute |-> p + f + e]
             /\ workflow_report =
                  [NewReport EXCEPT !.phases =
                      [planning |-> planning_success(test_cases),
                       ranking |-> ranking_success(rank_test_cases(test_cases, Len(test_cases))),
                       execution |-> execution_success(test_results)]]
             /\ calls = << Call("generate_test_cases", <<>>, ""),
                           Call("rank_test_cases", test_cases, ""),
                           Call("execute_test_cases", test_cases, "") >>
    /\ pc = "notify_analysis"
    /\ exc = ""
    /\ result = EmptyDict
    /\ raised = <<>>
    /\ started = <<"planning", "ranking", "execution">>
    /\ progress =
         IF observer = "none" THEN <<>>
         ELSE << [stage |-> "Planning", percent |-> 10,
                  message |-> "Generating test cases with LangChain"],
                 [stage |-> "Ranking", percent |-> 30,
                  message |-> "Ranking and selecting top test cases"],
                 [stage |-> "Execution", percent |-> 50,
                  message |-> "Executing selected test cases"] >>
    /\ analyzer = Idle
    /\ executor = Idle
    /\ service = Idle

NextEndToEnd ==
    \/ NotifyAnalysis \/ AnalysisPhase
    \/ NotifyReporting \/ Reporting \/ NotifyComplete
    \/ Except \/ NotifyFailed \/ Return

SpecEndToEnd == InitEndToEnd /\ [][NextEndToEnd]_vars

\* ---------------------------------------------------------------- one call of execute_test_cases
\* The test cases given to the executor: distinct ids, up to MaxSteps steps.
ExecutorCases ==
    UNION { { [k \in 1..n |-> [id |-> k, steps |-> f[k]]] : f \in [1..n -> 0..MaxSteps] } :
            n \in 0..MaxTests }

\* execute_test_cases(test_cases, test_run_id) is entered.
InitExecutor ==
    /\ WorkflowIdle
    /\ analyzer = Idle
    /\ service = Idle
    /\ \E test_cases \in ExecutorCases : \E playwright \in BOOLEAN :
          executor = [pc |-> "entry", playwright |-> playwright, test_cases |-> test_cases,
                      i |-> 1, results |-> <<>>, result |-> EmptyDict, page |-> FALSE,
                      error |-> "", origin |-> ""]

\* _generate_mock_results: test i (counted from 0) is failed if i % 4 = 0, else passed.
generate_mock_results(test_cases) ==
    [k \in 1..Len(test_cases) |->
        [test_id |-> test_cases[k].id,
         status |-> IF (k - 1) % 4 # 0 THEN "passed" ELSE "failed",
         execution_time |-> Ratio(10 + (k - 1), 2),
         steps_executed |-> [j \in 1..test_cases[k].steps |->
                                [step_index |-> j - 1, success |-> TRUE]],
         errors |-> IF (k - 1) % 4 # 0 THEN <<>> ELSE <<"mock_error">>]]

\* Lines 49-51: without Playwright the mock results are returned.
GenerateMockResults ==
    /\ executor.pc = "entry"
    /\ ~executor.playwright
    /\ executor' = [executor EXCEPT !.results = generate_mock_results(executor.test_cases),
                                    !.pc = "returned"]
    /\ UNCHANGED <<workflow, analyzer, service>>

\* An exception leaves the try block of execute_test_cases: the finally
\* clause runs next. origin tells whether it was raised while one test ran.
Propagate(e, origin) ==
    executor' = [executor EXCEPT !.error = e, !.origin = origin, !.pc = "cleanup"]

\* Line 57: _initialize_browser, which can raise.
InitializeBrowser ==
    /\ executor.pc = "entry"
    /\ executor.playwright
    /\ \/ executor' = [executor EXCEPT !.pc = "loop"]
       \/ \E e \in ErrMsgs : Propagate(e, "browser")
    /\ UNCHANGED <<workflow, analyzer, service>>

\* Lines 60-63 and 104-126: the next test case is taken; its artifact
\* directory is created (outside the try of _execute_single_test, so a
\* failure propagates) and its record starts with status running.
BeginTest ==
    /\ executor.pc = "loop"
    /\ executor.i <= Len(executor.test_cases)
    /\ \/ executor' = [executor EXCEPT
                          !.result = [test_id |-> executor.test_cases[executor.i].id,
                                      status |-> "running", steps_executed |-> <<>>,
                                      screenshots |-> 0],
                          !.page = FALSE,
                          !.pc = "new_page"]
       \/ \E e \in ErrMsgs : Propagate(e, "test")
    /\ UNCHANGED <<workflow, analyzer, service>>

\* Line 60: the loop over the test cases is over.
EndLoop ==
    /\ executor.pc = "loop"
    /\ executor.i > Len(executor.test_cases)
    /\ executor' = [executor EXCEPT !.pc = "cleanup"]
    /\ UNCHANGED <<workflow, analyzer, service>>

\* An exception inside the try block of _execute_single_test.
Caught(e) == executor' = [executor EXCEPT !.error = e, !.pc = "handler"]

\* Lines 130-145: page = await self.context.new_page(), then the two
\* page.on registrations.  new_page() raising leaves page unset; page.on
\* raising enters the handler with the page created, so that the finally
\* clause closes it.
NewPage ==
    /\ executor.pc = "new_page"
    /\ \/ executor' = [executor EXCEPT !.page = TRUE, !.pc = "steps"]
       \/ \E e \in ErrMsgs : Caught(e)
       \/ \E e \in ErrMsgs :
             executor' = [executor EXCEPT !.page = TRUE, !.error = e, !.pc = "handler"]
    /\ UNCHANGED <<workflow, analyzer, service>>

\* Mutant: the loop goes on with the next step after a failed one.
ExecuteStep_ContinuesAfterFailure ==
    /\ executor.pc = "steps"
    /\ LET step_index == Len(executor.result.steps_executed)
       IN  /\ step_index < executor.test_cases[executor.i].steps
           /\ \/ executor' = [executor EXCEPT
                    !.result.steps_executed =
                        Append(@, [step_index |-> step_index, success |-> TRUE])]
              \/ \E e \in ErrMsgs :
                    executor' = [executor EXCEPT
                        !.result = [status |-> "failed", failure_reason |-> e,
                                    steps_executed |->
                                        Append(executor.result.steps_executed,
                                               [step_index |-> step_index, success |-> FALSE,
                                                error |-> e])] @@ @]
    /\ UNCHANGED <<workflow, analyzer, service>>

\* Lines 146-153: one turn of the step loop. _execute_step catches its own
\* exceptions and returns success False; the first such step sets status
\* failed and ends the loop.
ExecuteStep ==
    /\ executor.pc = "steps"
    /\ LET step_index == Len(executor.result.steps_executed)
       IN  /\ step_index < executor.test_cases[executor.i].steps
           /\ \/ executor' = [executor EXCEPT
                    !.result.steps_executed =
                        Append(@, [step_index |-> step_index, success |-> TRUE])]
              \/ \E e \in ErrMsgs :
                    executor' = [executor EXCEPT
                        !.result = [status |-> "failed", failure_reason |-> e,
                                    steps_executed |->
                                        Append(executor.result.steps_executed,
                                               [step_index |-> step_index, success |-> FALSE,
                                                error |-> e])] @@ @,
                        !.pc = "final_screenshot"]
    /\ UNCHANGED <<workflow, analyzer, service>>

\* Line 146: every step has been executed.
EndSteps ==
    /\ executor.pc = "steps"
    /\ Len(executor.result.steps_executed) = executor.test_cases[executor.i].steps
    /\ executor' = [executor EXCEPT !.pc = "final_screenshot"]
    /\ UNCHANGED <<workflow, analyzer, service>>

\* Lines 156-158: the final screenshot, taken also after a failed step.
FinalScreenshot ==
    /\ executor.pc = "final_screenshot"
    /\ \/ executor' = [executor EXCEPT !.result.screenshots = @ + 1,
                                       !.pc = "page_artifacts"]
       \/ \E e \in ErrMsgs : Caught(e)
    /\ UNCHANGED <<workflow, analyzer, service>>

\* Lines 161-165: _capture_page_artifacts catches its own exceptions; then a
\* record still running becomes passed.
CapturePageArtifacts ==
    /\ executor.pc = "page_artifacts"
    /\ executor' = [executor EXCEPT
                      !.result.status = IF @ = "running" THEN "passed" ELSE @,
                      !.pc = "close_page"]
    /\ UNCHANGED <<workflow, analyzer, service>>

\* Lines 167-170: except Exception as e
HandleTestException ==
    /\ executor.pc = "handler"
    /\ executor' = [executor EXCEPT
                      !.result = [status |-> "error", error_message |-> executor.error] @@ @,
                      !.error = "",
                      !.pc = "close_page"]
    /\ UNCHANGED <<workflow, analyzer, service>>

\* Lines 172-174: finally: if page: await page.close(); an exception raised
\* here leaves _execute_single_test.
ClosePage ==
    /\ executor.pc = "close_page"
    /\ \/ executor' = [executor EXCEPT !.page = FALSE, !.pc = "save_result"]
       \/ /\ executor.page
          /\ \E e \in ErrMsgs : Propagate(e, "test")
    /\ UNCHANGED <<workflow, analyzer, service>>

\* Lines 177-184, still in the finally clause: the execution time, which is
\* the time the clock has advanced since the test began, and then the write
\* of test_result.json, which can raise: the exception leaves
\* _execute_single_test with the execution time in the record.
SaveResult ==
    /\ executor.pc = "save_result"
    /\ \/ \E t \in ExecTimes :
            executor' = [executor EXCEPT !.result = [execution_time |-> Secs(t)] @@ @,
                                         !.pc = "return_record"]
       \/ \E t \in ExecTimes : \E e \in ErrMsgs :
            executor' = [executor EXCEPT !.result = [execution_time |-> Secs(t)] @@ @,
                                         !.error = e, !.origin = "test",
                                         !.pc = "cleanup"]
    /\ UNCHANGED <<workflow, analyzer, service>>

\* Lines 186 and 64: the record is returned and appended to the results.
ReturnRecord ==
    /\ executor.pc = "return_record"
    /\ executor' = [executor EXCEPT !.results = Append(@, executor.result),
                                    !.result = EmptyDict,
                                    !.i = @ + 1,
                                    !.pc = "loop"]
    /\ UNCHANGED <<workflow, analyzer, service>>

\* Lines 69-72: finally: _cleanup_browser, which can raise; then the results
\* are returned, or the exception that left the try block goes on.
CleanupBrowser ==
    /\ executor.pc = "cleanup"
    /\ \/ executor' = [executor EXCEPT
                          !.pc = IF executor.error = "" THEN "returned" ELSE "raised"]
       \/ \E e \in ErrMsgs :
            executor' = [executor EXCEPT
                           !.error = e,
                           !.origin = IF executor.error = "" THEN "browser" ELSE @,
                           !.pc = "raised"]
    /\ UNCHANGED <<workflow, analyzer, service>>

NextExecutor ==
    \/ GenerateMockResults \/ InitializeBrowser
    \/ BeginTest \/ EndLoop
    \/ NewPage \/ ExecuteStep \/ EndSteps
    \/ FinalScreenshot \/ CapturePageArtifacts \/ HandleTestException
    \/ ClosePage \/ SaveResult \/ ReturnRecord
    \/ CleanupBrowser

SpecExecutor == InitExecutor /\ [][NextExecutor]_vars

\* execute_test_cases is entered with one test case of up to MaxSteps steps.
InitSingleTest ==
    /\ WorkflowIdle
    /\ analyzer = Idle
    /\ service = Idle
    /\ \E steps \in 0..MaxSteps : \E playwright \in BOOLEAN :
          executor = [pc |-> "entry", playwright |-> playwright,
                      test_cases |-> <<[id |-> 1, steps |-> steps]>>,
                      i |-> 1, results |-> <<>>, result |-> EmptyDict, page |-> FALSE,
                      error |-> "", origin |-> ""]

SpecSingleTest == InitSingleTest /\ [][NextExecutor]_vars

\* ---------------------------------------------------------------- the service (main.py)
\* test_status as the module creates it (line 35).
IdleStatus == [status |-> "idle", progress |-> 0, message |-> <<"">>]

\* The calls execute_full_workflow makes to the observer of the service when
\* nothing raises outside the phase methods.
ProgressStages ==
    << <<"Planning", 10>>, <<"Ranking", 30>>, <<"Execution", 50>>,
       <<"Analysis", 80>>, <<"Reporting", 95>>, <<"Complete", 100>> >>

\* The module state after import: no run (current_test_run is None, written
\* as a run id of its own), status idle. The clock stands for
\* datetime.now() at the resolution of the run id (one second).
InitService ==
    /\ WorkflowIdle
    /\ analyzer = Idle
    /\ executor = Idle
    /\ service = [test_status |-> IdleStatus, current_test_run |-> <<"None">>,
                  clock |-> 0, requests |-> 0, tasks |-> <<>>, response |-> EmptyDict,
                  reports |-> EmptyDict, writer |-> 0]

\* Time passes: the next second.
Tick ==
    /\ service.clock < MaxClock
    /\ service' = [service EXCEPT !.clock = @ + 1]
    /\ UNCHANGED <<workflow, analyzer, executor>>

\* POST /api/start-test (lines 52-64): rejected with 400 when test_status is
\* running; else the run id is made from the clock and the workflow is added
\* as a background task, which starts after the response.
StartTest ==
    /\ service.requests < MaxRequests
    /\ IF service.test_status.status = "running"
       THEN service' = [service EXCEPT
                          !.requests = @ + 1,
                          !.response = [code |-> 400]]
       ELSE LET test_run_id == <<"test_", service.clock>>
            IN  service' = [service EXCEPT
                              !.requests = @ + 1,
                              !.current_test_run = test_run_id,
                              !.tasks = Append(@, [test_run_id |-> test_run_id,
                                                   pc |-> "scheduled", stage |-> 0]),
                              !.response = [code |-> 200, test_run_id |-> test_run_id,
                                            status |-> "started"]]
    /\ UNCHANGED <<workflow, analyzer, executor>>

\* Lines 115-132: the background task starts: test_status becomes running.
BeginWorkflow(t) ==
    /\ service.tasks[t].pc = "scheduled"
    /\ service' = [service EXCEPT
                     !.test_status = [status |-> "running", progress |-> 0,
                                      message |-> <<"Starting test workflow">>],
                     !.writer = t,
                     !.tasks[t].pc = "workflow"]
    /\ UNCHANGED <<workflow, analyzer, executor>>

\* Lines 128-130: progress_callback, called by the workflow of task t: it
\* writes into the test_status the module holds at that moment.
ProgressCallback(t) ==
    /\ service.tasks[t].pc = "workflow"
    /\ service.tasks[t].stage < Len(ProgressStages)
    /\ LET next == ProgressStages[service.tasks[t].stage + 1]
       IN  service' = [service EXCEPT
                         !.test_status.progress = next[2],
                         !.test_status.message = <<next[1], ": ">>,
                         !.writer = t,
                         !.tasks[t].stage = @ + 1]
    /\ UNCHANGED <<workflow, analyzer, executor>>

\* Line 133: execute_full_workflow ends: it returns a report of status
\* completed; or something has raised between two calls of the observer and
\* the handler of the workflow (orchestrator lines 114-121) calls
\* progress_callback("Failed", 0, ...) and returns a report of status failed;
\* or it raises.
WorkflowEnds(t) ==
    /\ service.tasks[t].pc = "workflow"
    /\ LET task == [test_run_id |-> service.tasks[t].test_run_id]
       IN  \/ /\ service.tasks[t].stage = Len(ProgressStages)
              /\ service' = [service EXCEPT
                    !.tasks[t] = [report_status |-> "completed", pc |-> "save"] @@ task]
           \/ /\ service.tasks[t].stage \in 1..(Len(ProgressStages) - 1)
              /\ service' = [service EXCEPT
                    !.test_status.progress = 0,
                    !.test_status.message = <<"Failed", ": ">>,
                    !.writer = t,
                    !.tasks[t] = [report_status |-> "failed", pc |-> "save"] @@ task]
           \/ \E e \in ErrMsgs :
                service' = [service EXCEPT !.tasks[t] = [error |-> e, pc |-> "except"] @@ task]
    /\ UNCHANGED <<workflow, analyzer, executor>>

\* Lines 135-144: the final report file is written under the run id and
\* test_status becomes completed; the write can raise, open() before it has
\* touched the file or json.dump after open() has truncated it.
SaveFinalReport(t) ==
    /\ service.tasks[t].pc = "save"
    /\ \/ service' = [service EXCEPT
                        !.reports = Put(@, service.tasks[t].test_run_id,
                                        [task |-> t,
                                         status |-> service.tasks[t].report_status]),
                        !.test_status = [status |-> "completed", progress |-> 100,
                                         message |-> <<"Test completed successfully. Report: ",
                                                       service.tasks[t].test_run_id>>],
                        !.writer = t,
                        !.tasks[t] = [test_run_id |-> @.test_run_id, pc |-> "done"]]
       \/ \E e \in ErrMsgs :
            service' = [service EXCEPT
                          !.tasks[t] = [test_run_id |-> @.test_run_id, error |-> e,
                                        pc |-> "except"]]
       \/ \E e \in ErrMsgs :
            service' = [service EXCEPT
                          !.reports = Put(@, service.tasks[t].test_run_id,
                                          [task |-> t] @@ PartialFile),
                          !.tasks[t] = [test_run_id |-> @.test_run_id, error |-> e,
                                        pc |-> "except"]]
    /\ UNCHANGED <<workflow, analyzer, executor>>

\* Mutant: the handler logs the exception and leaves test_status as it is.
WorkflowFailed_KeepsStatus(t) ==
    /\ service.tasks[t].pc = "except"
    /\ service' = [service EXCEPT
                     !.tasks[t] = [test_run_id |-> @.test_run_id, pc |-> "done"]]
    /\ UNCHANGED <<workflow, analyzer, executor>>

\* Lines 146-151: except Exception as e: test_status becomes failed.
WorkflowFailed(t) ==
    /\ service.tasks[t].pc = "except"
    /\ service' = [service EXCEPT
                     !.test_status = [status |-> "failed", progress |-> 0,
                                      message |-> <<"Test failed: ", service.tasks[t].error>>],
                     !.writer = t,
                     !.tasks[t] = [test_run_id |-> @.test_run_id, pc |-> "done"]]
    /\ UNCHANGED <<workflow, analyzer, executor>>

NextService ==
    \/ Tick
    \/ StartTest
    \/ \E t \in DOMAIN service.tasks :
          \/ BeginWorkflow(t) \/ ProgressCallback(t) \/ WorkflowEnds(t)
          \/ SaveFinalReport(t) \/ WorkflowFailed(t)

SpecService == InitService /\ [][NextService]_vars

\* A step of the background task t. The event loop runs every task that was
\* added, and the awaits of execute_full_workflow return or raise: a task
\* that can take a step is not left waiting forever.
TaskStep(t) ==
    /\ t \in DOMAIN service.tasks
    /\ \/ BeginWorkflow(t) \/ WorkflowEnds(t) \/ SaveFinalReport(t) \/ WorkflowFailed(t)

\* The runs of the service within one second of the clock (the clock enters
\* the run ids only), with every background task running on.
NextServiceTasks ==
    \/ StartTest
    \/ \E t \in DOMAIN service.tasks :
          \/ BeginWorkflow(t) \/ ProgressCallback(t) \/ WorkflowEnds(t)
          \/ SaveFinalReport(t) \/ WorkflowFailed(t)

FairSpecService ==
    /\ InitService
    /\ [][NextServiceTasks]_vars
    /\ \A t \in 1..MaxRequests : WF_vars(TaskStep(t))

\* ---------------------------------------------------------------- properties
PhaseOrder == <<"planning", "ranking", "execution", "analysis", "reporting">>
PhaseNames == {"planning", "ranking", "execution", "analysis"}
Verdicts == {"EXCELLENT", "GOOD", "FAIR", "POOR"}

\* The position of a phase in the pipeline.
PhasePos(name) == CHOOSE i \in 1..5 : PhaseOrder[i] = name
\* The collaborator operation a phase invokes.
OpOfPhase(name) ==
    CASE name = "planning" -> "generate_test_cases"
      [] name = "ranking" -> "rank_test_cases"
      [] name = "execution" -> "execute_test_cases"
      [] name = "analysis" -> "analyze_results"

\* The run has ended: execute_full_workflow has returned or has been left by
\* an exception.
Ended == pc \in {"returned", "raised"}
\* The invocations of op so far.
CallsOf(op) == SelectSeq(calls, LAMBDA c : c.op = op)
\* op has been invoked and raised.
Raised(op) == \E i \in DOMAIN calls : calls[i].op = op /\ calls[i].outcome # ""
\* The status of the workflow report ("unset" before line 109 or 116).
WorkflowStatus == Get(workflow_report, "status", "unset")
\* No exception has been raised outside the phase methods: the observer, the
\* only such source in these runs, has not raised.
NoControllerError == raised = <<>>
HasPhase(name) == name \in DOMAIN workflow_report.phases
Phase(name) == workflow_report.phases[name]

\* C1: the phases start in the order planning, ranking, execution, analysis,
\* reporting: every phase started so far comes later in the pipeline than all
\* phases started before it (so none starts twice and none after a later one),
\* and once the status of the run is completed or failed no phase starts.
C1_PhaseOrder ==
    /\ [](\A i, j \in DOMAIN started :
            i < j => PhasePos(started[i]) < PhasePos(started[j]))
    /\ [][(WorkflowStatus \in {"completed", "failed"}) => (started' = started)]_vars

C1_Witness == pc = "returned" /\ started = PhaseOrder /\ Raised("rank_test_cases")

\* C2: every run ends by returning a report whose status is completed or
\* failed; no run is left by an exception.
C2_AlwaysReturnsReport ==
    Ended => /\ pc = "returned"
             /\ Get(result, "status", "unset") \in {"completed", "failed"}

\* C3: whichever collaborators raise, and the observer raising nothing: the
\* PhaseResult of each one that raised has status failed and the exception's
\* message as error, the exception does not reach the workflow's handler, and
\* the run ends with all four PhaseResults recorded, the reporting step run
\* and status completed.
C3_PhaseErrorsAreLocal ==
    /\ \A name \in PhaseNames :
         Raised(OpOfPhase(name)) =>
            /\ HasPhase(name)
            /\ Phase(name).status = "failed"
            /\ Phase(name).error = CallsOf(OpOfPhase(name))[1].outcome
    /\ NoControllerError =>
         /\ pc \notin {"except", "notify_failed", "raised"}
         /\ pc = "returned" =>
              /\ DOMAIN workflow_report.phases = PhaseNames
              /\ started = PhaseOrder
              /\ result.status = "completed"

C3_Witness ==
    /\ pc = "returned"
    /\ \A name \in PhaseNames : Raised(OpOfPhase(name))
    /\ result.status = "completed"

\* C4: if the generator raised, the planning PhaseResult is failed with an
\* empty test-case list and test_cases_generated = 0; the ranker, once
\* invoked, is given the empty list and the ranking PhaseResult selects
\* nothing; and the run, unless the observer raises, goes on through
\* execution, analysis and reporting.
C4_PlanningFallback ==
    Raised("generate_test_cases") =>
        /\ Phase("planning").status = "failed"
        /\ Phase("planning").test_cases = <<>>
        /\ Phase("planning").test_cases_generated = 0
        /\ \A i \in DOMAIN calls :
              calls[i].op = "rank_test_cases" => calls[i].arg = <<>>
        /\ HasPhase("ranking") => Phase("ranking").selected_test_cases = <<>>
        /\ NoControllerError =>
              /\ pc \notin {"except", "notify_failed", "raised"}
              /\ pc = "returned" => started = PhaseOrder

C4_Witness ==
    /\ pc = "returned"
    /\ Raised("generate_test_cases")
    /\ ~Raised("rank_test_cases")
    /\ config.num_execute > 0
    /\ started = PhaseOrder

\* C5: if the ranker raised, the ranking PhaseResult is failed, its selection
\* is the first min(N, number of candidates) candidates of the planning
\* output in their order, N = num_execute, and its rejected list is empty.
C5_RankingFallback ==
    Raised("rank_test_cases") =>
        LET candidates == Phase("planning").test_cases
            n == Min(config.num_execute, Len(candidates))
        IN  /\ Phase("ranking").status = "failed"
            /\ Phase("ranking").selected_test_cases = [i \in 1..n |-> candidates[i]]
            /\ Phase("ranking").rejected_test_cases = <<>>

C5_Witness ==
    /\ Raised("rank_test_cases")
    /\ Len(Phase("planning").test_cases) = 2
    /\ config.num_execute = 1
    /\ Phase("ranking").selected_test_cases = <<1>>

\* C6: if the executor raised, the execution PhaseResult is failed with an
\* empty batch and all-zero statistics; the analyzer is invoked at most once
\* and only on the empty batch, and exactly once in every run that returns
\* without an exception of the observer.
C6_ExecutionFallback ==
    Raised("execute_test_cases") =>
        /\ Phase("execution").status = "failed"
        /\ Phase("execution").test_results = <<>>
        /\ \A k \in DOMAIN Phase("execution").execution_statistics :
              Phase("execution").execution_statistics[k] = 0
        /\ {"total_executed", "passed", "failed", "errors"}
              \subseteq DOMAIN Phase("execution").execution_statistics
        /\ Len(CallsOf("analyze_results")) <= 1
        /\ \A i \in DOMAIN calls :
              calls[i].op = "analyze_results" => calls[i].arg = <<>>
        /\ (NoControllerError /\ pc = "returned") => Len(CallsOf("analyze_results")) = 1

C6_Witness ==
    /\ pc = "returned"
    /\ Raised("execute_test_cases")
    /\ Len(Phase("ranking").selected_test_cases) > 0
    /\ Len(CallsOf("analyze_results")) = 1

\* C7: after an executor failure the analysis of the empty batch raises
\* nothing: the analysis PhaseResult has status success and holds a summary
\* and a cross_validation_score.
C7_EmptyBatchAnalysisSucceeds ==
    (Raised("execute_test_cases") /\ HasPhase("analysis")) =>
        /\ Phase("analysis").status = "success"
        /\ "summary" \in DOMAIN Phase("analysis").analysis_result
        /\ "validation_results" \in DOMAIN Phase("analysis").analysis_result

\* C8: if the analyzer raised, the analysis PhaseResult is failed with the
\* message as error and an empty analysis_result; the final report, once
\* built, has a verdict and an empty recommendation list; and the run, unless
\* the observer raises, reaches the reporting step and returns that report.
C8_AnalysisFallback ==
    Raised("analyze_results") =>
        /\ Phase("analysis").status = "failed"
        /\ Phase("analysis").error = CallsOf("analyze_results")[1].outcome
        /\ DOMAIN Phase("analysis").analysis_result = {}
        /\ "final_report" \in DOMAIN workflow_report =>
              /\ workflow_report.final_report.overall_verdict \in Verdicts
              /\ workflow_report.final_verdict = workflow_report.final_report.overall_verdict
              /\ workflow_report.final_report.recommendations = <<>>
        /\ NoControllerError =>
              /\ pc \notin {"except", "notify_failed", "raised"}
              /\ pc = "returned" =>
                    /\ started = PhaseOrder
                    /\ "final_report" \in DOMAIN result
                    /\ result.status = "completed"

C8_Witness ==
    /\ pc = "returned"
    /\ Raised("analyze_results")
    /\ Len(Phase("execution").test_results) > 0
    /\ result.final_report.recommendations = <<>>
    /\ result.final_verdict = "EXCELLENT"

\* C9: once an exception raised in the try block outside the phase methods
\* (here: by the observer) has been handled, the status is failed and the
\* error field holds that exception's message; from the moment it is raised
\* no phase starts and no collaborator is invoked; and a run that ends with a
\* phase not run ends with status failed.
C9_ControllerErrorFails ==
    /\ []((raised # <<>> /\ pc \in {"notify_failed", "return", "returned", "raised"}) =>
            /\ WorkflowStatus = "failed"
            /\ workflow_report.error = raised[1].message)
    /\ [][raised # <<>> => (started' = started /\ calls' = calls)]_vars
    /\ []((Ended /\ started # PhaseOrder) => WorkflowStatus = "failed")

C9_Witness ==
    /\ pc = "returned"
    /\ Len(raised) = 1
    /\ raised[1].at = "notify_execution"
    /\ started = <<"planning", "ranking">>
    /\ result.status = "failed"
    /\ result.error = raised[1].message

\* C10: the verdict of the final report is decided by r = passed /
\* total_executed of the execution phase (r = 0 when total_executed = 0):
\* EXCELLENT iff r >= 0.9, GOOD iff 0.8 <= r < 0.9, FAIR iff 0.6 <= r < 0.8,
\* POOR iff r < 0.6.
C10_VerdictMapping ==
    "final_report" \in DOMAIN workflow_report =>
        LET st == Phase("execution").execution_statistics
            t == st.total_executed
            p == st.passed
            v == workflow_report.final_report.overall_verdict
        IN  /\ v \in Verdicts
            /\ workflow_report.final_verdict = v
            /\ v = "EXCELLENT" <=> (t > 0 /\ 10 * p >= 9 * t)
            /\ v = "GOOD" <=> (t > 0 /\ 10 * p >= 8 * t /\ 10 * p < 9 * t)
            /\ v = "FAIR" <=> (t > 0 /\ 10 * p >= 6 * t /\ 10 * p < 8 * t)
            /\ v = "POOR" <=> (t = 0 \/ 10 * p < 6 * t)

C10_Witness ==
    /\ pc = "returned"
    /\ Phase("execution").execution_statistics.total_executed = 10
    /\ Phase("execution").execution_statistics.passed = 9
    /\ result.final_verdict = "EXCELLENT"

\* C11: the reporting step never aborts: whatever the four PhaseResults hold,
\* the step taken at the reporting position ends with the final report built,
\* its verdict one of EXCELLENT, GOOD, FAIR, POOR, and status completed; and
\* whenever the status is completed, final_verdict is the report's verdict and
\* the PhaseResults are recorded under exactly the keys planning, ranking,
\* execution, analysis.
C11_ReportingNeverAborts ==
    /\ [][pc = "reporting" =>
            (pc' = "reporting" \/
                /\ pc' = "notify_complete"
                /\ raised' = raised
                /\ "final_report" \in DOMAIN workflow_report'
                /\ workflow_report'.final_report.overall_verdict \in Verdicts
                /\ workflow_report'.status = "completed")]_vars
    /\ [](WorkflowStatus = "completed" =>
            /\ workflow_report.final_verdict \in Verdicts
            /\ workflow_report.final_verdict = workflow_report.final_report.overall_verdict
            /\ DOMAIN workflow_report.phases = PhaseNames
            /\ \A name \in PhaseNames : Phase(name).status \in {"success", "failed"})

C11_Witness ==
    /\ pc = "notify_complete"
    /\ WorkflowStatus = "completed"
    /\ \A name \in PhaseNames : Phase(name).status = "failed"
    /\ workflow_report.final_verdict = "POOR"

\* C12: no collaborator operation is invoked more than once in a run; once an
\* operation has raised, no later step invokes it; and the phase that caught
\* the failure holds the fallback value, which is what the next collaborator
\* is given: no test cases after a generator failure, the first N candidates
\* after a ranker failure, the empty batch after an executor failure, the
\* empty analysis after an analyzer failure.
C12_NoRetry ==
    /\ [](\A name \in PhaseNames : Len(CallsOf(OpOfPhase(name))) <= 1)
    /\ [][\A i \in DOMAIN calls' : i > Len(calls) => ~Raised(calls'[i].op)]_vars
    /\ [](/\ Raised("generate_test_cases") =>
               /\ Phase("planning").test_cases = <<>>
               /\ \A i \in DOMAIN calls :
                     calls[i].op = "rank_test_cases" => calls[i].arg = <<>>
          /\ Raised("rank_test_cases") =>
               /\ Phase("ranking").selected_test_cases =
                     SliceTo(Phase("planning").test_cases, config.num_execute)
               /\ \A i \in DOMAIN calls :
                     calls[i].op = "execute_test_cases" =>
                        calls[i].arg = Phase("ranking").selected_test_cases
          /\ Raised("execute_test_cases") =>
               /\ Phase("execution").test_results = <<>>
               /\ \A i \in DOMAIN calls :
                     calls[i].op = "analyze_results" => calls[i].arg = <<>>
          /\ Raised("analyze_results") =>
               DOMAIN Phase("analysis").analysis_result = {})

C12_Witness ==
    /\ pc = "returned"
    /\ Len(calls) = 4
    /\ Raised("generate_test_cases")
    /\ Raised("analyze_results")
    /\ ~Raised("rank_test_cases")
    /\ \A name \in PhaseNames : Len(CallsOf(OpOfPhase(name))) = 1

\* C13: the percentages reported to the observer in one run, in the order of
\* the calls, are strictly increasing and lie within 0..100, also in the runs
\* that end failed.
C13_ProgressStrictlyIncreasing ==
    /\ \A i \in DOMAIN progress : progress[i].percent \in 0..100
    /\ \A i, j \in DOMAIN progress :
          i < j => progress[i].percent < progress[j].percent

\* How a run without an observer ends, given the outcomes of the collaborators:
\* all five phases executed, each PhaseResult failed exactly if its
\* collaborator raised, the verdict that of the executed batch, and the
\* workflow status completed.
EndsAsWithoutObserver ==
    /\ pc = "returned"
    /\ started = PhaseOrder
    /\ DOMAIN workflow_report.phases = PhaseNames
    /\ \A name \in PhaseNames :
          Phase(name).status = IF Raised(OpOfPhase(name)) THEN "failed" ELSE "success"
    /\ workflow_report.final_verdict =
          Verdict(Phase("execution").execution_statistics.passed,
                  Phase("execution").execution_statistics.total_executed)
    /\ WorkflowStatus = "completed"

\* C14: the observer has no influence on the run: a run with an observer,
\* also one that raises when called, ends as the run without an observer does
\* for the same collaborator outcomes: same phases executed, same PhaseResult
\* statuses, same verdict, same workflow status.
C14_ObserverHasNoInfluence ==
    (Ended /\ observer # "none") => EndsAsWithoutObserver

\* C15: once the status of the workflow report is completed or failed, no
\* step writes the report: the status does not change (completed does not
\* become failed) and no other field is written.
C15_ReportFrozenOnceStatusSet ==
    [][(WorkflowStatus \in {"completed", "failed"}) =>
          (workflow_report' = workflow_report)]_vars

\* The statistics the aggregator has computed in a call of analyze_results.
HasStats == "summary" \in DOMAIN analyzer.analysis
Stats == analyzer.analysis["summary"]
TerminalStatuses == {"passed", "failed", "error"}
\* The counts add up to the total and the three rates to 1.
CountsAddUp(stats) ==
    /\ stats.passed + stats.failed + stats.errors = stats.total_tests
    /\ RatioAdd(RatioAdd(stats.success_rate, stats.failure_rate), stats.error_rate) = <<1, 1>>

\* C16 as stated: for every non-empty batch, whatever the status values of
\* its records, passed + failed + errors = total_tests and the three rates sum
\* to 1.
C16_CountsAddUpForAnyStatus ==
    (HasStats /\ analyzer.test_results # <<>>) => CountsAddUp(Stats)

\* C16 amended: for every non-empty batch whose records all have status
\* passed, failed or error, passed + failed + errors = total_tests, each rate
\* is its count divided by total_tests, and the three rates sum to 1.
C16_CountsAddUpForTerminalStatuses ==
    (/\ HasStats
     /\ analyzer.test_results # <<>>
     /\ \A i \in DOMAIN analyzer.test_results :
           analyzer.test_results[i].status \in TerminalStatuses) =>
        /\ CountsAddUp(Stats)
        /\ Stats.total_tests = Len(analyzer.test_results)
        /\ Stats.success_rate = Ratio(Stats.passed, Stats.total_tests)
        /\ Stats.failure_rate = Ratio(Stats.failed, Stats.total_tests)
        /\ Stats.error_rate = Ratio(Stats.errors, Stats.total_tests)

C16_Witness ==
    /\ analyzer.pc = "returned"
    /\ Len(analyzer.test_results) = 3
    /\ Stats.passed = 1
    /\ Stats.failed = 1
    /\ Stats.errors = 1

\* C17: on the empty batch the aggregator returns the full statistics shape
\* with every value 0: total_tests, passed, failed, errors, the three rates,
\* and min, max, average and total of the execution times.
C17_EmptyBatchFullShape ==
    (HasStats /\ analyzer.test_results = <<>>) =>
        /\ {"total_tests", "passed", "failed", "errors", "success_rate",
             "failure_rate", "error_rate", "execution_times"} \subseteq DOMAIN Stats
        /\ Stats.total_tests = 0 /\ Stats.passed = 0
        /\ Stats.failed = 0 /\ Stats.errors = 0
        /\ Stats.success_rate = Zero /\ Stats.failure_rate = Zero
        /\ Stats.error_rate = Zero
        /\ Stats.execution_times = [min |-> Zero, max |-> Zero, average |-> Zero, total |-> Zero]

\* A test is being executed: the control is inside _execute_single_test,
\* after the record has been created (lines 112-186). Once an exception has
\* left the method from its finally clause no test is being executed.
TestInProgress ==
    executor.pc \in {"new_page", "steps", "final_screenshot", "page_artifacts",
                     "handler", "close_page", "save_result", "return_record"}

\* C18: while one test is executed, a status passed, failed or error of its
\* record is never changed by a later step (failed is never overwritten by
\* error); and no record returned by the executor has status running.
C18_StatusNeverReverts ==
    /\ [][(/\ TestInProgress
           /\ executor.result.status \in TerminalStatuses
           /\ DOMAIN executor'.result # {}) =>
              (executor'.result.status = executor.result.status)]_vars
    /\ [](\A k \in DOMAIN executor.results : executor.results[k].status # "running")

\* C19: a failure raised while one test case runs never leaves
\* execute_test_cases as an exception; and the call returns one record per
\* test case given, in the given order, each with status passed, failed or
\* error.
C19_PerTestFailuresAreRecords ==
    /\ executor.pc = "raised" => executor.origin # "test"
    /\ (executor.pc \in {"returned", "raised"} /\ executor.origin # "browser") =>
          /\ executor.pc = "returned"
          /\ Len(executor.results) = Len(executor.test_cases)
          /\ \A k \in DOMAIN executor.results :
                /\ executor.results[k].test_id = executor.test_cases[k].id
                /\ executor.results[k].status \in TerminalStatuses

\* Task t of the service has been accepted and has not finished.
InFlight(t) == service.tasks[t].pc # "done"

\* C20: two workflows in flight at the same time have distinct run ids;
\* test_status is written by a workflow only when the workflow that wrote it
\* last is no longer in flight, and a report file is written only by the
\* workflow that first wrote it; and a start-test request is accepted only
\* when no accepted workflow is in flight.
C20_RunsAreIsolated ==
    /\ [](\A t, u \in DOMAIN service.tasks :
            (t # u /\ InFlight(t) /\ InFlight(u)) =>
               service.tasks[t].test_run_id # service.tasks[u].test_run_id)
    /\ [][(service'.writer # service.writer /\ service.writer # 0) =>
             ~InFlight(service.writer)]_vars
    /\ [][\A id \in DOMAIN service.reports :
             service'.reports[id].task = service.reports[id].task]_vars
    /\ [][(Len(service'.tasks) > Len(service.tasks)) =>
             (\A t \in DOMAIN service.tasks : ~InFlight(t))]_vars

\* The triage notes computed in a call of analyze_results.
HasTriage == "triage_notes" \in DOMAIN analyzer.analysis
Triage == analyzer.analysis["triage_notes"]
Tiers == {"high_priority", "medium_priority", "low_priority"}
\* The number of notes about test id under a tier.
NotesOf(tier, id) == Cardinality({i \in DOMAIN Triage[tier] : Triage[tier][i][1] = id})
HasPageError(r) == \E j \in DOMAIN r.errors : r.errors[j] = "page_error"

\* C21: in the triage notes, every record of status error has a note under
\* high_priority, whatever its errors list holds; and every failed record
\* with at least one error of type page_error has a note under high_priority
\* and none under medium_priority or low_priority, whatever its execution
\* time.
C21_TriageHighPriority ==
    HasTriage =>
        \A i \in DOMAIN analyzer.test_results :
            LET r == analyzer.test_results[i]
            IN  /\ r.status = "error" => NotesOf("high_priority", r.test_id) = 1
                /\ (r.status = "failed" /\ HasPageError(r)) =>
                      /\ NotesOf("high_priority", r.test_id) = 1
                      /\ NotesOf("medium_priority", r.test_id) = 0
                      /\ NotesOf("low_priority", r.test_id) = 0

C21_Witness ==
    /\ analyzer.pc = "returned"
    /\ Len(analyzer.test_results) = 2
    /\ analyzer.test_results[1] = Record(1, Outcome("failed", 40, <<"console_error", "page_error">>, 1))
    /\ analyzer.test_results[2] = Record(2, Outcome("error", 5, <<"network_error", "timeout_error">>, 0))
    /\ Len(Triage["high_priority"]) = 2

\* C22: the triage notes hold exactly one note, in exactly one tier, for
\* each record of status failed or error, and none for a record of status
\* passed; the number of notes over the three tiers is failed + errors.
C22_TriageOneNotePerFailure ==
    HasTriage =>
        /\ \A i \in DOMAIN analyzer.test_results :
              LET r == analyzer.test_results[i]
                  tiers == {t \in Tiers : NotesOf(t, r.test_id) > 0}
              IN  /\ r.status \in {"failed", "error"} =>
                        /\ Cardinality(tiers) = 1
                        /\ \A t \in tiers : NotesOf(t, r.test_id) = 1
                  /\ r.status = "passed" => tiers = {}
        /\ Len(Triage["high_priority"]) + Len(Triage["medium_priority"])
              + Len(Triage["low_priority"])
              = CountStatus(analyzer.test_results, "failed")
                  + CountStatus(analyzer.test_results, "error")
        /\ DOMAIN Triage = Tiers

C22_Witness ==
    /\ analyzer.pc = "returned"
    /\ Len(analyzer.test_results) = 3
    /\ analyzer.test_results[1].status = "passed"
    /\ analyzer.test_results[2] = Record(2, Outcome("failed", 40, <<>>, 1))
    /\ analyzer.test_results[3].status = "error"
    /\ Len(Triage["medium_priority"]) = 1
    /\ Len(Triage["high_priority"]) = 1

\* The recommendations computed in a call of analyze_results.
HasRecommendations == "recommendations" \in DOMAIN analyzer.analysis
Recs == analyzer.analysis["recommendations"]
\* The rules that fire on the statistics: 1 success rate < 0.8, 2 average
\* execution time > 30.0, 3 error rate > 0.2, 4 total tests < 10.
FiredRules(stats) ==
    {k \in 1..4 :
        \/ k = 1 /\ 10 * stats.success_rate[1] < 8 * stats.success_rate[2]
        \/ k = 2 /\ stats.execution_times.average[1] > 30 * stats.execution_times.average[2]
        \/ k = 3 /\ 10 * stats.error_rate[1] > 2 * stats.error_rate[2]
        \/ k = 4 /\ stats.total_tests < 10}
\* The rule an entry of the list comes from (0: the 'all metrics acceptable' entry).
RuleOf(entry) ==
    CASE entry[1] = "Success rate (" -> 1
      [] entry[1] = "Average execution time (" -> 2
      [] entry[1] = "Error rate (" -> 3
      [] entry[1] = "Consider expanding test coverage with more test cases." -> 4
      [] entry[1] = "All metrics within acceptable thresholds. Test suite performing well." -> 0

\* C23: the recommendation list holds one entry for each of the four rules
\* that fires, in the order success rate, average execution time, error
\* rate, total tests, and nothing else; when no rule fires it is the single
\* 'all metrics acceptable' entry; so it is never empty.
C23_RecommendationRules ==
    HasRecommendations =>
        LET fired == FiredRules(Stats)
        IN  /\ Len(Recs) >= 1
            /\ IF fired = {}
               THEN Len(Recs) = 1 /\ RuleOf(Recs[1]) = 0
               ELSE /\ Len(Recs) = Cardinality(fired)
                    /\ \A i \in DOMAIN Recs : RuleOf(Recs[i]) \in fired
                    /\ \A i, j \in DOMAIN Recs : i < j => RuleOf(Recs[i]) < RuleOf(Recs[j])

C23_Witness ==
    /\ analyzer.pc = "returned"
    /\ Len(analyzer.test_results) = 10
    /\ FiredRules(Stats) = {}
    /\ Len(Recs) = 1

\* The first of two calls of analyze_results, once the second is entered.
SecondCall == analyzer.pc # "idle" /\ analyzer.previous # EmptyDict
First == analyzer.previous

\* C24: when the aggregator output of the batches of two calls is the same,
\* the two recommendation lists are the same, entry by entry, whatever the
\* records of the two batches are.
C24_RecommendationsDependOnStatsOnly ==
    ( /\ SecondCall
      /\ HasRecommendations
      /\ "recommendations" \in DOMAIN First.analysis
      /\ Stats = First.analysis["summary"] )
    => Recs = First.analysis["recommendations"]

C24_Witness ==
    /\ SecondCall
    /\ analyzer.pc = "returned"
    /\ First.pc = "returned"
    /\ Stats = First.analysis["summary"]
    /\ Recs = First.analysis["recommendations"]
    /\ analyzer.analysis["triage_notes"] # First.analysis["triage_notes"]
    /\ \A i \in DOMAIN analyzer.test_results :
          analyzer.test_results[i] # First.test_results[i]

\* The executed batch of a run, and the analysis of it once the analysis
\* phase has recorded a success.
ExecutedBatch == Phase("execution").test_results
Analysed ==
    /\ "analysis" \in DOMAIN workflow_report.phases
    /\ Phase("analysis").status = "success"
Analysis == Phase("analysis").analysis_result
\* 10 records, 9 passed and 1 failed, the failed one with one page_error.
NineOfTen ==
    /\ Len(ExecutedBatch) = 10
    /\ CountStatus(ExecutedBatch, "passed") = 9
    /\ CountStatus(ExecutedBatch, "failed") = 1
    /\ \A i \in DOMAIN ExecutedBatch :
          ExecutedBatch[i].status = "failed" => ExecutedBatch[i].errors = <<"page_error">>
\* The average of the measured (non-zero) execution times of the batch is at
\* most 30 s.
FastOnAverage ==
    ~RatioGt(SumTimes(ExecutedBatch),
             30 * Cardinality({i \in DOMAIN ExecutedBatch :
                                  ExecutedBatch[i].execution_time # Zero}), 1)
\* What the end-to-end example expects of the analysis and of the final report.
NineOfTenExpected ==
    /\ Analysed =>
          /\ Analysis.summary.success_rate = Ratio(9, 10)
          /\ Len(Analysis.triage_notes.high_priority) = 1
          /\ Len(Analysis.triage_notes.medium_priority) = 0
          /\ Len(Analysis.triage_notes.low_priority) = 0
          /\ Len(Analysis.recommendations) = 1
          /\ RuleOf(Analysis.recommendations[1]) = 0
    /\ "final_report" \in DOMAIN workflow_report =>
          /\ workflow_report.final_verdict = "EXCELLENT"
          /\ workflow_report.final_report.overall_verdict = "EXCELLENT"

\* C25 as stated: every batch of 10 records, 9 passed and 1 failed with one
\* page_error, gets success rate 0.9, verdict EXCELLENT, one high-priority
\* triage note and no other, and the single 'all metrics acceptable'
\* recommendation.
C25_NineOfTenAllAcceptable == NineOfTen => NineOfTenExpected

\* C25, amended: every batch of that kind gets success rate 0.9, verdict
\* EXCELLENT and one high-priority triage note and no other; its
\* recommendation list is the single 'all metrics acceptable' entry when its
\* measured execution times are at most 30 s on average, and the single
\* 'average execution time' entry otherwise.
C25_NineOfTenAcceptableWhenFast ==
    NineOfTen =>
        /\ FastOnAverage => NineOfTenExpected
        /\ Analysed =>
              /\ Analysis.summary.success_rate = Ratio(9, 10)
              /\ Len(Analysis.triage_notes.high_priority) = 1
              /\ Len(Analysis.triage_notes.medium_priority) = 0
              /\ Len(Analysis.triage_notes.low_priority) = 0
              /\ Len(Analysis.recommendations) = 1
              /\ RuleOf(Analysis.recommendations[1]) = IF FastOnAverage THEN 0 ELSE 2
        /\ "final_report" \in DOMAIN workflow_report =>
              workflow_report.final_verdict = "EXCELLENT"

C25_Witness ==
    /\ NineOfTen
    /\ FastOnAverage
    /\ \E i \in DOMAIN ExecutedBatch : ExecutedBatch[i].execution_time = Secs(40)
    /\ Analysed
    /\ "final_report" \in DOMAIN workflow_report
    /\ Len(Analysis.recommendations) = 1

\* The second call is made on the batch of the first.
SameBatchAgain == SecondCall /\ analyzer.test_results = First.test_results
\* Two analysis dicts are equal in every field but metadata.timestamp.
EqualButTimestamp(a1, a2) ==
    /\ DOMAIN a1 = DOMAIN a2
    /\ \A k \in DOMAIN a1 \ {"metadata"} : a1[k] = a2[k]
    /\ "metadata" \in DOMAIN a1 =>
          /\ DOMAIN a1["metadata"] = DOMAIN a2["metadata"]
          /\ \A k \in DOMAIN a1["metadata"] \ {"timestamp"} :
                a1["metadata"][k] = a2["metadata"][k]

\* C26: when analyze_results is called a second time on the same batch and
\* run id, the report it returns equals the one the first call returned in
\* every field except metadata.timestamp (and it raises where the analysis
\* of the first call raised), and the second call leaves the outcome of the
\* first unchanged: the report file reports/{run id}_analysis.json holds
\* what it held when the first call returned.
C26_AnalysisIdempotent ==
    SameBatchAgain =>
        /\ (analyzer.pc = "returned" /\ First.pc = "returned")
               => EqualButTimestamp(First.analysis, analyzer.analysis)
        /\ First.error = "division by zero" => analyzer.pc # "returned"
        /\ First.pc = "returned" => analyzer.file = First.file

\* C27: no step of analyze_results, whether the call returns or raises,
\* changes the batch it was given: the records, their order and their number
\* stay as they were when the call was entered.
C27_AnalysisLeavesBatchUnchanged ==
    [][ analyzer.pc # "idle" => analyzer'.test_results = analyzer.test_results ]_vars

C27_Witness ==
    /\ analyzer.pc \in {"returned", "raised"}
    /\ analyzer.error # "division by zero"
    /\ Len(analyzer.test_results) = MaxBatch
    /\ ErrorTypes(analyzer.test_results) # {}
    /\ HasTriage

\* What a call of an agent must be given: the payload of the PhaseResult
\* recorded for the phase before its own, if one is recorded.
Handover(op, phases) ==
    CASE op = "generate_test_cases" -> [recorded |-> TRUE, value |-> <<>>]
      [] op = "rank_test_cases" ->
            [recorded |-> "planning" \in DOMAIN phases,
             value |-> Get(Get(phases, "planning", EmptyDict), "test_cases", <<>>)]
      [] op = "execute_test_cases" ->
            [recorded |-> "ranking" \in DOMAIN phases,
             value |-> Get(Get(phases, "ranking", EmptyDict), "selected_test_cases", <<>>)]
      [] op = "analyze_results" ->
            [recorded |-> "execution" \in DOMAIN phases,
             value |-> Get(Get(phases, "execution", EmptyDict), "test_results", <<>>)]

\* C28: whenever the ranker, the executor or the analyzer is called, the
\* PhaseResult of the phase before is already recorded in the report, and
\* the call is given exactly its test_cases (ranking), selected_test_cases
\* (execution) or test_results (analysis), the fallback values included.
C28_PhasesHandOver ==
    [][ calls' # calls =>
          /\ Len(calls') = Len(calls) + 1
          /\ LET c == calls'[Len(calls')]
                 h == Handover(c.op, workflow_report.phases)
             IN  h.recorded /\ c.arg = h.value ]_vars

C28_Witness ==
    /\ Len(calls) = 4
    /\ calls[2].outcome # ""
    /\ calls[2].arg = Phase("planning").test_cases
    /\ calls[3].arg = Phase("ranking").selected_test_cases
    /\ Len(calls[3].arg) < Len(calls[2].arg)
    /\ calls[4].arg = Phase("execution").test_results
    /\ Len(calls[4].arg) > 0

\* The cross-validation checks computed in a call of analyze_results.
HasValidation == "validation_results" \in DOMAIN analyzer.analysis
Check(k) == analyzer.analysis["validation_results"].validation_checks[k]
\* The positions of the records whose execution time t has |t - mean| > 2 * mean
\* in floats, the mean taken over all n records of the batch.
OutlierPositions(rs) ==
    LET n == Len(rs)
        sum == SumTimes(rs)
    IN  {i \in DOMAIN rs : ExceedsTwiceMean(rs[i].execution_time, sum, n)}

\* C29: check 1 lists as outliers exactly the records with
\* |execution_time - mean| > 2 * mean, the mean over all records of the
\* batch; its status is pass when the outliers are at most a tenth of the
\* batch and fail otherwise; a batch of equal times has no outlier and passes.
C29_ExecutionTimeConsistency ==
    HasValidation =>
        LET rs == analyzer.test_results
            out == OutlierPositions(rs)
            c1 == Check(1)
        IN  /\ c1.check_name = "execution_time_consistency"
            /\ Len(c1.outliers) = Cardinality(out)
            /\ {c1.outliers[j] : j \in DOMAIN c1.outliers} = {rs[i].test_id : i \in out}
            /\ c1.status = IF 10 * Cardinality(out) <= Len(rs) THEN "pass" ELSE "fail"
            /\ (\A i, j \in DOMAIN rs : rs[i].execution_time = rs[j].execution_time)
                  => (c1.outliers = <<>> /\ c1.status = "pass")

C29_Witness ==
    /\ analyzer.pc = "returned"
    /\ Len(analyzer.test_results) = 10
    /\ Len(Check(1).outliers) = 1
    /\ Check(1).status = "pass"

\* C30: check 2 passes when the records of the batch log at most 3 distinct
\* error types and gives a warning otherwise; it never fails.
C30_ErrorPatternValidation ==
    HasValidation =>
        LET rs == analyzer.test_results
            types == {t \in {"page_error", "console_error", "network_error", "timeout_error"} :
                        \E i \in DOMAIN rs : \E j \in DOMAIN rs[i].errors : rs[i].errors[j] = t}
            c2 == Check(2)
        IN  /\ c2.check_name = "error_pattern_validation"
            /\ c2.status = IF Cardinality(types) <= 3 THEN "pass" ELSE "warning"
            /\ c2.status # "fail"

C30_Witness ==
    /\ analyzer.pc = "returned"
    /\ Cardinality(ErrorTypes(analyzer.test_results)) = 4
    /\ Check(2).status = "warning"

\* C31: check 3 passes when every record of the batch has a screenshot or an
\* artifact; otherwise it gives a warning, and incomplete_tests holds the
\* test ids of exactly the records that have neither, in the order of the batch.
C31_ArtifactCompleteness ==
    HasValidation =>
        LET rs == analyzer.test_results
            bare == {i \in DOMAIN rs : rs[i].screenshots = 0 /\ rs[i].artifacts = 0}
            c3 == Check(3)
            PosOf(id) == CHOOSE i \in DOMAIN rs : rs[i].test_id = id
        IN  /\ c3.check_name = "artifact_completeness"
            /\ (c3.status = "pass") <=> (bare = {})
            /\ c3.status \in {"pass", "warning"}
            /\ Len(c3.incomplete_tests) = Cardinality(bare)
            /\ \A j \in DOMAIN c3.incomplete_tests :
                  \E i \in bare : rs[i].test_id = c3.incomplete_tests[j]
            /\ \A j, k \in DOMAIN c3.incomplete_tests :
                  j < k => PosOf(c3.incomplete_tests[j]) < PosOf(c3.incomplete_tests[k])

C31_Witness ==
    /\ analyzer.pc = "returned"
    /\ Check(3).status = "warning"
    /\ Len(Check(3).incomplete_tests) = 2
    /\ \E i \in DOMAIN analyzer.test_results :
          analyzer.test_results[i].screenshots = 0 /\ analyzer.test_results[i].artifacts > 0

\* C32: the validation runs the three checks execution_time_consistency,
\* error_pattern_validation, artifact_completeness in that order; the overall
\* status is pass when all three pass and warning otherwise, also when
\* check 1 fails; the score is the number of passing checks divided by 3.
C32_ThreeChecksAndOverallStatus ==
    HasValidation =>
        LET v == analyzer.analysis["validation_results"]
            passing == {k \in DOMAIN v.validation_checks : v.validation_checks[k].status = "pass"}
        IN  /\ [k \in DOMAIN v.validation_checks |-> v.validation_checks[k].check_name]
                  = <<"execution_time_consistency", "error_pattern_validation",
                      "artifact_completeness">>
            /\ v.overall_validation_status
                  = IF passing = {1, 2, 3} THEN "pass" ELSE "warning"
            /\ v.cross_validation_score[1] * 3 = Cardinality(passing) * v.cross_validation_score[2]

C32_Witness ==
    /\ analyzer.pc = "returned"
    /\ Check(1).status = "fail"
    /\ Check(2).status = "pass"
    /\ Check(3).status = "pass"
    /\ analyzer.analysis["validation_results"].overall_validation_status = "warning"
    /\ analyzer.analysis["validation_results"].cross_validation_score = Ratio(2, 3)

\* C33: on the empty batch the validation raises nothing, its three checks
\* pass, check 1 with no outliers, the overall status is pass and the score is 1.
C33_EmptyBatchValidationPasses ==
    (analyzer.test_results = <<>> /\ analyzer.pc # "validation") =>
        /\ analyzer.pc # "raised"
        /\ HasValidation
        /\ \A k \in 1..3 : Check(k).status = "pass"
        /\ Check(1).outliers = <<>>
        /\ Check(3).incomplete_tests = <<>>
        /\ analyzer.analysis["validation_results"].overall_validation_status = "pass"
        /\ analyzer.analysis["validation_results"].cross_validation_score = Ratio(1, 1)

C33_Witness ==
    /\ analyzer.test_results = <<>>
    /\ HasValidation
    /\ analyzer.analysis["validation_results"].overall_validation_status = "pass"

\* C34: a failed record without an error of type page_error has its note
\* under medium_priority when its execution time is above 30 s and under
\* low_priority otherwise; the notes of each tier follow the order of the
\* records in the batch.
C34_TriageMediumLowAndOrder ==
    HasTriage =>
        LET rs == analyzer.test_results
            PosOf(id) == CHOOSE i \in DOMAIN rs : rs[i].test_id = id
        IN  /\ \A i \in DOMAIN rs :
                  (rs[i].status = "failed" /\ ~HasPageError(rs[i])) =>
                     /\ NotesOf("medium_priority", rs[i].test_id)
                           = IF RatioGt(rs[i].execution_time, 30, 1) THEN 1 ELSE 0
                     /\ NotesOf("low_priority", rs[i].test_id)
                           = IF RatioGt(rs[i].execution_time, 30, 1) THEN 0 ELSE 1
                     /\ NotesOf("high_priority", rs[i].test_id) = 0
            /\ \A t \in Tiers : \A j, k \in DOMAIN Triage[t] :
                  j < k => PosOf(Triage[t][j][1]) < PosOf(Triage[t][k][1])

C34_Witness ==
    /\ analyzer.pc = "returned"
    /\ Len(analyzer.test_results) = 3
    /\ analyzer.test_results[1].status = "failed"
    /\ analyzer.test_results[1].execution_time = Secs(30)
    /\ analyzer.test_results[2] = Record(2, Outcome("failed", 40, <<>>, 1))
    /\ analyzer.test_results[3].status = "failed"
    /\ Len(Triage["low_priority"]) = 2
    /\ Len(Triage["medium_priority"]) = 1

\* C35: the execution-time distribution of the summary is taken over the
\* execution times of all records of the batch, a record without a measured
\* time counting as 0: total is their sum, average is total divided by the
\* number of records (the mean validation check 1 uses), and min and max are
\* the least and the greatest of them.
C35_TimesOverAllRecords ==
    ("summary" \in DOMAIN analyzer.analysis /\ analyzer.test_results # <<>>) =>
        LET rs == analyzer.test_results
            times == {rs[i].execution_time : i \in DOMAIN rs}
            d == Stats.execution_times
        IN  /\ d.total = SumTimes(rs)
            /\ d.average = RatioDiv(SumTimes(rs), Len(rs))
            /\ d.min \in times /\ \A t \in times : RatioLe(d.min, t)
            /\ d.max \in times /\ \A t \in times : RatioLe(t, d.max)

\* The error analysis computed in a call of analyze_results.
HasDetailed == "detailed_analysis" \in DOMAIN analyzer.analysis
ErrorAnalysis == analyzer.analysis["detailed_analysis"].error_analysis

\* C36: for every failed record the error analysis has one entry of type
\* test_failure in failure_patterns and counts it in error_summary, next to
\* the logged errors: the counts of error_summary add up to the length of
\* failure_patterns, which is the number of logged errors plus the number of
\* failed records.
C36_TestFailureInTallyAndPatterns ==
    HasDetailed =>
        LET rs == analyzer.test_results
            tally == ErrorAnalysis.error_summary
            patterns == ErrorAnalysis.failure_patterns
            failed == CountStatus(rs, "failed")
            logged == SumLens([i \in DOMAIN rs |-> rs[i].errors])
        IN  /\ Len(patterns) = logged + failed
            /\ Cardinality({j \in DOMAIN patterns : patterns[j].error_type = "test_failure"})
                  = failed
            /\ Get(tally, "test_failure", 0) = failed
            /\ SumRatios([t \in DOMAIN tally |-> <<tally[t], 1>>], DOMAIN tally)
                  = <<Len(patterns), 1>>

\* The result of a call of _analyze_reliability.
HasReliability == "reliability_analysis" \in DOMAIN analyzer.analysis
Reliability == analyzer.analysis["reliability_analysis"]

\* C37: the score of each category is passed / total of the records of that
\* category; overall_reliability is the mean of the scores of the categories,
\* and 0 on the empty batch; flaky_tests holds the test ids of exactly the
\* passed records with at least one logged error.
C37_ReliabilityScores ==
    HasReliability =>
        LET rs == analyzer.test_results
            CatOf(i) == IF "category" \in DOMAIN rs[i] THEN rs[i].category ELSE "unknown"
            cats == {CatOf(i) : i \in DOMAIN rs}
            Members(c) == {i \in DOMAIN rs : CatOf(i) = c}
            Passed(c) == {i \in Members(c) : rs[i].status = "passed"}
            scores == Reliability.category_reliability
            sum == SumRatios(scores, cats)
            overall == Reliability.overall_reliability
            flaky == Reliability.flaky_tests
        IN  /\ DOMAIN scores = cats
            /\ \A c \in cats :
                  scores[c][1] * Cardinality(Members(c)) = Cardinality(Passed(c)) * scores[c][2]
            /\ IF rs = <<>> THEN overall = Zero
               ELSE overall[1] * sum[2] * Cardinality(cats) = sum[1] * overall[2]
            /\ {flaky[j] : j \in DOMAIN flaky}
                  = {rs[i].test_id : i \in {k \in DOMAIN rs :
                                               rs[k].status = "passed" /\ rs[k].errors # <<>>}}
            /\ \A j, k \in DOMAIN flaky : j # k => flaky[j] # flaky[k]

C37_Witness ==
    /\ analyzer.pc = "returned"
    /\ HasReliability
    /\ Len(analyzer.test_results) = 3
    /\ Cardinality(DOMAIN Reliability.category_reliability) = 2
    /\ Reliability.overall_reliability = Ratio(3, 4)
    /\ Len(Reliability.flaky_tests) = 1

\* C38: when a workflow task of the service has got its WorkflowReport and
\* finishes, the service status becomes completed only if the report has
\* status completed, and failed if the report has status failed.
C38_StatusFollowsReport ==
    [][ \A t \in DOMAIN service.tasks :
          (service.tasks[t].pc = "save" /\ service'.tasks[t].pc = "done") =>
             service'.test_status.status
                = IF service.tasks[t].report_status = "completed" THEN "completed"
                  ELSE "failed" ]_vars

\* Task t of the service has begun (test_status was set to running by it)
\* and has not finished.
Begun(t) == service.tasks[t].pc \in {"workflow", "save", "except"}
FinalStatuses == {"completed", "failed"}

\* C39: whenever accepted workflow tasks are unfinished, a state follows in
\* which they have all finished, and in such a state the status is completed
\* or failed; the status is running only while a task that has begun has
\* not finished: it cannot stay running forever.
C39_ServiceStatusSettles ==
    /\ (\E t \in DOMAIN service.tasks : InFlight(t))
          ~> (\A t \in DOMAIN service.tasks : ~InFlight(t))
    /\ [](service.test_status.status = "running" =>
             \E t \in DOMAIN service.tasks : Begun(t))
    /\ []((service.tasks # <<>> /\ \A t \in DOMAIN service.tasks : ~InFlight(t)) =>
             service.test_status.status \in FinalStatuses)

C39_Witness ==
    /\ Len(service.tasks) = 2
    /\ \A t \in DOMAIN service.tasks : ~InFlight(t)
    /\ service.test_status.status = "failed"
    /\ service.reports # EmptyDict

\* The steps of a record are in order, only the last of them can have
\* failed, and the failure_reason of the record is the error of that step.
StepsStopAtFailure(r) ==
    "steps_executed" \in DOMAIN r =>
        LET steps == r.steps_executed
        IN  /\ \A j \in DOMAIN steps : steps[j].step_index = j - 1
            /\ \A j \in DOMAIN steps : ~steps[j].success => j = Len(steps)
            /\ (steps # <<>> /\ ~steps[Len(steps)].success) =>
                  /\ "failure_reason" \in DOMAIN r
                  /\ r.failure_reason = steps[Len(steps)].error
                  /\ r.status \in {"failed", "error"}
            /\ "failure_reason" \in DOMAIN r =>
                  (steps # <<>> /\ ~steps[Len(steps)].success)

\* C40: in the record of every test case, the one being executed and those
\* returned, the steps executed are in order and end with the first step
\* that failed, whose error is the failure_reason of the record; once a step
\* has failed, no further step of that test case is executed.
C40_StepsStopAtFirstFailure ==
    /\ [](executor.pc # "idle" =>
             /\ StepsStopAtFailure(executor.result)
             /\ \A k \in DOMAIN executor.results : StepsStopAtFailure(executor.results[k]))
    /\ [][ ( /\ "steps_executed" \in DOMAIN executor.result
            /\ "steps_executed" \in DOMAIN executor'.result
            /\ executor'.i = executor.i
            /\ executor.result.steps_executed # <<>>
            /\ ~executor.result.steps_executed[Len(executor.result.steps_executed)].success )
          => executor'.result.steps_executed = executor.result.steps_executed ]_vars

C40_Witness ==
    /\ executor.pc = "returned"
    /\ executor.playwright
    /\ Len(executor.results) = 1
    /\ executor.test_cases[1].steps = 2
    /\ Len(executor.results[1].steps_executed) = 1
    /\ ~executor.results[1].steps_executed[1].success
    /\ executor.results[1].status = "failed"
    /\ executor.results[1].failure_reason = executor.results[1].steps_executed[1].error
    /\ executor.results[1].execution_time = Secs(40)

====
